---- MODULE Spec2Model ----
(***************************************************************************)
(* Model of the tile cache of tile-gen: the Disk cache of                  *)
(* tile_gen/caches.py (lock, unlock, read, save, remove) and the           *)
(* cache-or-render entry point Layer.get_tile / Layer.render of            *)
(* tile_gen/core.py, run by several worker processes that share one cache  *)
(* directory.                                                              *)
(*                                                                         *)
(* Time is not counted in seconds.  Every comparison the code makes        *)
(* against the clock (time.time() > due, age > cache_lifespan,             *)
(* time() < use_by) becomes true at a moment the environment chooses, by   *)
(* an action of its own, and stays true as the clock only moves forward.   *)
(***************************************************************************)
EXTENDS Naturals, Integers, Sequences, FiniteSets, TLC

\* ---------------------------------------------------------------- bounds
NumProcs == 2
LockCalls == 2
DiskCalls == 3
MaxCalls == 2

Procs == 1 .. NumProcs

\* Python's None, in a slot that holds bytes
None == << >>

\* an OSError / IOError that leaves a cache method
Raised == << "OSError" >>

\* ------------------------------------------------------- keys and paths
\* ModestMaps Coordinate(row, column, zoom)
Coordinate(r, c, z) == [row |-> r, column |-> c, zoom |-> z]

\* Python's None, in a slot that holds a Coordinate
NoCoord == Coordinate(-1, -1, -1)

Coords == { Coordinate(0, 0, 1), Coordinate(0, 1, 1) }

\* the format names a provider's getTypeByExtension hands to the cache
Formats == { "MVT", "JSON" }

lower(format) ==
    CASE format = "MVT" -> "mvt"
      [] format = "PNG" -> "png"
      [] format = "TopoJSON" -> "topojson"
      [] OTHER -> "json"

\* Disk.__init__: gzip='txt text json xml'.split()
gzip == { "txt", "text", "json", "xml" }

\* the bytes a client of the cache saves
Bodies == { << "b1" >>, << "b2" >> }

\* gzip.open(tmp_path, 'w').write(body): the bytes of the compressed file
gzip_write(body) == << "gz" >> \o body

\* gzip.open(fullpath, 'r').read(): the bytes a compressed file holds, an
\* IOError for a file that is not a gzip file
gzip_read_mutant(content) == content

gzip_read(content) ==
    IF Len(content) > 0 /\ content[1] = "gz" THEN Tail(content) ELSE Raised

\* ----------------------------------------------------------------- state
VARIABLES
    cfg,        \* the layer and cache configuration, fixed after Init
    locks,      \* the lock directories that exist
    files,      \* cache path -> content of the file, or None when absent
    expired,    \* cache path -> the file's age exceeds layer.cache_lifespan
    tmp,        \* process -> content of its mkstemp file, or None
    pc,         \* process -> position in its code
    ret,        \* process -> where the cache call in progress returns to
    calls,      \* the number of calls the processes may still start
    op,         \* process -> arguments and locals of the cache call in progress
    arg,        \* process -> arguments of its get_tile call
    loc,        \* process -> locals of its get_tile call
    recent,     \* process -> its module's _recent_tiles
    gh,         \* process -> history of the call in progress (not program state)
    broken,     \* history: the lock paths a waiter has removed by force
    saved,      \* history: cache path -> the body last published there, or None
    gone        \* history: the cache paths whose entry expired or was removed

vars == << cfg, locks, files, expired, tmp, pc, ret, calls, op, arg, loc,
           recent, gh, broken, saved, gone >>

_is_compressed(format) == lower(format) \in cfg.gzip

\* Disk._filepath, dirs = 'portable': l/z/x/y.e with e the lower-cased format,
\* followed by '.gz' for a compressed format
_filepath(coord, format) ==
    << "L", ToString(coord.zoom), ToString(coord.column), ToString(coord.row),
       lower(format), IF _is_compressed(format) THEN ".gz" ELSE "" >>

_fullpath(coord, format) == << "cachepath" >> \o _filepath(coord, format)

_lockpath(coord, format) == _fullpath(coord, format) \o << ".lock" >>

\* every path the cache may hold a tile at, under either gzip setting
Paths ==
    { << "cachepath", "L", ToString(c.zoom), ToString(c.column), ToString(c.row),
         lower(f), gz >> : c \in Coords, f \in Formats, gz \in { ".gz", "" } }

NoOp == [ coord |-> NoCoord, format |-> "None", body |-> None,
          pastDue |-> FALSE, result |-> None ]

NoArg == [ coord |-> NoCoord, format |-> "None", ignore_cached |-> FALSE,
           suppress_cache_write |-> FALSE ]

NoLoc == [ body |-> None, lockCoord |-> NoCoord, tile |-> None, save |-> FALSE,
          exc |-> FALSE, version |-> "None", i |-> 0 ]

NoRecent == [ hash |-> [ k \in {} |-> None ], list |-> << >>, seq |-> 0,
              clock |-> 0 ]

NoGh == [ locked |-> << >>, unlocked |-> << >>, wrote |-> FALSE,
          rendered |-> 0, outcome |-> "None", key |-> << >>, mine |-> "no",
          start |-> None, saves |-> 0, during |-> {},
          watch |-> FALSE, quiet |-> TRUE, allowed |-> {},
          startExpired |-> FALSE, startSaved |-> << >> ]

\* ------------------------------------------------------------ Disk.lock
\* lock(): lockpath and due are computed, the loop is entered
lock(p, coord, format, return) ==
    /\ op' = [op EXCEPT ![p] = [NoOp EXCEPT !.coord = coord, !.format = format]]
    /\ ret' = [ret EXCEPT ![p] = return]
    /\ pc' = [pc EXCEPT ![p] = "lock_loop"]

\* the clock passes the due time of a lock call in progress
StaleLockTimeout(p) ==
    /\ pc[p] \in { "lock_loop", "lock_makedirs", "lock_sleep" }
    /\ ~ op[p].pastDue
    /\ op' = [op EXCEPT ![p].pastDue = TRUE]
    /\ UNCHANGED << cfg, locks, files, expired, tmp, pc, ret, calls, arg, loc,
                    recent, gh, broken, saved, gone >>

\* if time.time() > due: try: os.rmdir(lockpath) except OSError: pass
rmdir_stale_mutant(lockpath, pastDue) == locks

rmdir_stale(lockpath, pastDue) ==
    IF pastDue THEN locks \ { lockpath } ELSE locks

LockLoop(p) ==
    /\ pc[p] = "lock_loop"
    /\ LET lockpath == _lockpath(op[p].coord, op[p].format)
       IN  /\ locks' = rmdir_stale(lockpath, op[p].pastDue)
           /\ broken' = IF op[p].pastDue /\ lockpath \in locks
                         THEN broken \cup { lockpath } ELSE broken
    /\ pc' = [pc EXCEPT ![p] = "lock_makedirs"]
    /\ UNCHANGED << cfg, files, expired, tmp, ret, calls, op, arg, loc, recent, gh,
                    saved, gone >>

\* os.makedirs(lockpath): creates the directory and leaves the loop, or
\* fails with errno 17 when it exists
makedirs_lock_mutant(lockpath) == TRUE

makedirs_lock(lockpath) == lockpath \notin locks

LockMakedirs(p) ==
    /\ pc[p] = "lock_makedirs"
    /\ LET lockpath == _lockpath(op[p].coord, op[p].format)
       IN  IF makedirs_lock(lockpath)
           THEN /\ locks' = locks \cup { lockpath }
                /\ pc' = [pc EXCEPT ![p] = ret[p]]
                /\ gh' = [gh EXCEPT ![p].locked = lockpath]
           ELSE /\ pc' = [pc EXCEPT ![p] = "lock_sleep"]
                /\ UNCHANGED << locks, gh >>
    /\ UNCHANGED << cfg, files, expired, tmp, ret, calls, op, arg, loc, recent,
                    broken, saved, gone >>

\* time.sleep(.2), then the loop again
LockSleep(p) ==
    /\ pc[p] = "lock_sleep"
    /\ pc' = [pc EXCEPT ![p] = "lock_loop"]
    /\ UNCHANGED << cfg, locks, files, expired, tmp, ret, calls, op, arg, loc,
                    recent, gh, broken, saved, gone >>

Lock(p) == LockLoop(p) \/ LockMakedirs(p) \/ LockSleep(p)

\* ---------------------------------------------------------- Disk.unlock
\* try: os.rmdir(lockpath) except OSError: pass
unlock(coord, format) == locks \ { _lockpath(coord, format) }

\* ------------------------------------------------------------ Disk.read
ReadPcs == { "read_exists", "read_stat", "read_open" }

\* history: a change of the file at path while reads of it are in progress;
\* vals are the results the change entitles those reads to
Seen(g, path, vals) ==
    [ q \in Procs |->
        IF g[q].watch /\ pc[q] \in ReadPcs
              /\ _fullpath(op[q].coord, op[q].format) = path
        THEN [ g[q] EXCEPT !.allowed = @ \cup vals, !.quiet = FALSE ]
        ELSE IF g[q].key = path
        THEN [ g[q] EXCEPT !.quiet = FALSE,
                           !.mine = IF @ = "yes" THEN "lost" ELSE @ ]
        ELSE g[q] ]

\* read(): fullpath is computed
read(p, coord, format, return) ==
    /\ op' = [op EXCEPT ![p] = [NoOp EXCEPT !.coord = coord, !.format = format]]
    /\ ret' = [ret EXCEPT ![p] = return]
    /\ pc' = [pc EXCEPT ![p] = "read_exists"]

\* if not exists(fullpath): return None
ReadExists(p) ==
    /\ pc[p] = "read_exists"
    /\ LET fullpath == _fullpath(op[p].coord, op[p].format)
       IN  IF files[fullpath] = None
           THEN /\ op' = [op EXCEPT ![p].result = None]
                /\ pc' = [pc EXCEPT ![p] = ret[p]]
           ELSE /\ pc' = [pc EXCEPT ![p] = "read_stat"]
                /\ UNCHANGED op
    /\ UNCHANGED << cfg, locks, files, expired, tmp, ret, calls, arg, loc,
                    recent, gh, broken, saved, gone >>

\* age = time.time() - os.stat(fullpath).st_mtime, an OSError when the file
\* is gone; if layer.cache_lifespan and age > layer.cache_lifespan: return None
ReadStat(p) ==
    /\ pc[p] = "read_stat"
    /\ LET fullpath == _fullpath(op[p].coord, op[p].format)
       IN  IF files[fullpath] = None
           THEN /\ op' = [op EXCEPT ![p].result = Raised]
                /\ pc' = [pc EXCEPT ![p] = ret[p]]
           ELSE IF cfg.cache_lifespan /\ expired[fullpath]
           THEN /\ op' = [op EXCEPT ![p].result = None]
                /\ pc' = [pc EXCEPT ![p] = ret[p]]
           ELSE /\ pc' = [pc EXCEPT ![p] = "read_open"]
                /\ UNCHANGED op
    /\ UNCHANGED << cfg, locks, files, expired, tmp, ret, calls, arg, loc,
                    recent, gh, broken, saved, gone >>

\* the bytes read() hands back for the content of the file it opened
read_body(format, content) ==
    IF _is_compressed(format) THEN gzip_read(content) ELSE content

\* gzip.open(fullpath, 'r').read() or open(fullpath, 'rb').read(), an IOError
\* when the file is gone
ReadOpen(p) ==
    /\ pc[p] = "read_open"
    /\ LET fullpath == _fullpath(op[p].coord, op[p].format)
       IN  op' = [op EXCEPT ![p].result =
                    IF files[fullpath] = None THEN Raised
                    ELSE read_body(op[p].format, files[fullpath])]
    /\ pc' = [pc EXCEPT ![p] = ret[p]]
    /\ UNCHANGED << cfg, locks, files, expired, tmp, ret, calls, arg, loc,
                    recent, gh, broken, saved, gone >>

\* the age of a cached file passes layer.cache_lifespan
CacheLifespan(path) ==
    /\ cfg.cache_lifespan
    /\ files[path] # None
    /\ ~ expired[path]
    /\ expired' = [expired EXCEPT ![path] = TRUE]
    /\ gone' = gone \cup { path }
    /\ gh' = Seen(gh, path, { None })
    /\ UNCHANGED << cfg, locks, files, tmp, pc, ret, calls, op, arg, loc,
                    recent, broken, saved >>

\* ------------------------------------------------------------ Disk.save
\* save(): fullpath is computed
save(p, body, coord, format, return) ==
    /\ op' = [op EXCEPT ![p] = [NoOp EXCEPT !.coord = coord, !.format = format,
                                            !.body = body]]
    /\ ret' = [ret EXCEPT ![p] = return]
    /\ pc' = [pc EXCEPT ![p] = "save_write"]

\* the bytes save() writes to the temporary file
save_body(format, body) ==
    IF _is_compressed(format) THEN gzip_write(body) ELSE body

\* os.makedirs(dirname(fullpath)), errno 17 ignored; fh, tmp_path =
\* mkstemp(dir=self.cachepath, suffix=suffix), a file of this call alone;
\* tmp_file.write(body) or os.write(fh, body), then close; the write fails
\* with an OSError when the disk is full (the temporary file is then left
\* behind in cachepath, where no cache method looks)
SaveWrite(p) ==
    /\ pc[p] = "save_write"
    /\ \/ /\ tmp' = [tmp EXCEPT ![p] = save_body(op[p].format, op[p].body)]
          /\ pc' = [pc EXCEPT ![p] = "save_rename"]
          /\ UNCHANGED op
       \/ /\ tmp' = [tmp EXCEPT ![p] = None]
          /\ op' = [op EXCEPT ![p] = [NoOp EXCEPT !.result = Raised]]
          /\ pc' = [pc EXCEPT ![p] = ret[p]]
    /\ UNCHANGED << cfg, locks, files, expired, ret, calls, arg, loc,
                    recent, gh, broken, saved, gone >>

\* os.rename(tmp_path, fullpath) succeeds: always where rename replaces the
\* destination (POSIX), only without a destination elsewhere (os.name 'nt')
rename_ok(fullpath) == cfg.platform = "posix" \/ files[fullpath] = None

\* history kept by a process that changes the cache
Wrote(g, p, path) ==
    [ g EXCEPT ![p].wrote = TRUE,
               ![p].mine = IF g[p].key = path THEN "yes" ELSE @ ]

\* the temporary file becomes the file at fullpath
Publish(p, fullpath) ==
    /\ files' = [files EXCEPT ![fullpath] = tmp[p]]
    /\ expired' = [expired EXCEPT ![fullpath] = FALSE]
    /\ tmp' = [tmp EXCEPT ![p] = None]
    /\ saved' = [saved EXCEPT ![fullpath] = op[p].body]
    /\ gh' = Wrote(Seen(gh, fullpath, { op[p].body }), p, fullpath)

\* try: os.rename(tmp_path, fullpath) except OSError: ...
SaveRename(p) ==
    /\ pc[p] = "save_rename"
    /\ LET fullpath == _fullpath(op[p].coord, op[p].format)
       IN  IF rename_ok(fullpath)
           THEN /\ Publish(p, fullpath)
                /\ pc' = [pc EXCEPT ![p] = "save_chmod"]
           ELSE /\ pc' = [pc EXCEPT ![p] = "save_unlink"]
                /\ UNCHANGED << files, expired, tmp, saved, gh >>
    /\ UNCHANGED << cfg, locks, ret, calls, op, arg, loc, recent, broken, gone >>

\* except OSError: os.unlink(fullpath), an OSError when the file is gone
SaveUnlink(p) ==
    /\ pc[p] = "save_unlink"
    /\ LET fullpath == _fullpath(op[p].coord, op[p].format)
       IN  IF files[fullpath] = None
           THEN /\ op' = [op EXCEPT ![p] = [NoOp EXCEPT !.result = Raised]]
                /\ tmp' = [tmp EXCEPT ![p] = None]
                /\ pc' = [pc EXCEPT ![p] = ret[p]]
                /\ UNCHANGED << files, expired, saved, gh >>
           ELSE /\ files' = [files EXCEPT ![fullpath] = None]
                /\ expired' = [expired EXCEPT ![fullpath] = FALSE]
                /\ saved' = [saved EXCEPT ![fullpath] = None]
                /\ gh' = [Seen(gh, fullpath, {}) EXCEPT ![p].wrote = TRUE]
                /\ pc' = [pc EXCEPT ![p] = "save_rename2"]
                /\ UNCHANGED << op, tmp >>
    /\ UNCHANGED << cfg, locks, ret, calls, arg, loc, recent, broken, gone >>

\* except OSError: ...; os.rename(tmp_path, fullpath), not guarded
SaveRename2(p) ==
    /\ pc[p] = "save_rename2"
    /\ LET fullpath == _fullpath(op[p].coord, op[p].format)
       IN  IF rename_ok(fullpath)
           THEN /\ Publish(p, fullpath)
                /\ pc' = [pc EXCEPT ![p] = "save_chmod"]
                /\ UNCHANGED op
           ELSE /\ op' = [op EXCEPT ![p] = [NoOp EXCEPT !.result = Raised]]
                /\ tmp' = [tmp EXCEPT ![p] = None]
                /\ pc' = [pc EXCEPT ![p] = ret[p]]
                /\ UNCHANGED << files, expired, saved, gh >>
    /\ UNCHANGED << cfg, locks, ret, calls, arg, loc, recent, broken, gone >>

\* os.chmod(fullpath, 0666&~self.umask), an OSError when the file is gone
SaveChmod(p) ==
    /\ pc[p] = "save_chmod"
    /\ LET fullpath == _fullpath(op[p].coord, op[p].format)
       IN  op' = [op EXCEPT ![p] = [NoOp EXCEPT !.result =
                    IF files[fullpath] = None THEN Raised ELSE None]]
    /\ pc' = [pc EXCEPT ![p] = ret[p]]
    /\ UNCHANGED << cfg, locks, files, expired, tmp, ret, calls, arg, loc,
                    recent, gh, broken, saved, gone >>

Save(p) ==
    \/ SaveWrite(p) \/ SaveRename(p) \/ SaveUnlink(p) \/ SaveRename2(p) \/ SaveChmod(p)

Read(p) == ReadExists(p) \/ ReadStat(p) \/ ReadOpen(p)

\* ---------------------------------------------------------- Disk.remove
\* try: os.remove(fullpath) except OSError: errno 2 is fine
remove(coord, format) ==
    LET fullpath == _fullpath(coord, format)
    IN  /\ files' = [files EXCEPT ![fullpath] = None]
        /\ expired' = [expired EXCEPT ![fullpath] = FALSE]
        /\ saved' = [saved EXCEPT ![fullpath] = None]
        /\ gone' = IF files[fullpath] = None THEN gone ELSE gone \cup { fullpath }
        /\ gh' = Seen(gh, fullpath, { None, Raised })

\* ------------------------------- clients of Disk.read / save / remove
ClientIdle(p) == pc[p] \in { "idle", "read_done", "save_done" }

\* what a read of the path returns when it runs alone, now
Visible(coord, format) ==
    LET fullpath == _fullpath(coord, format)
    IN  IF files[fullpath] = None \/ (cfg.cache_lifespan /\ expired[fullpath])
        THEN None
        ELSE read_body(format, files[fullpath])

\* the one key the clients of the Disk cache use: its file is compressed
\* under the default gzip list and plain under an empty one
DiskCoord == Coordinate(0, 0, 1)

DiskFormat == "JSON"

ClientRead(p) ==
    /\ ClientIdle(p)
    /\ calls > 0
    /\ calls' = calls - 1
    /\ LET f == DiskFormat IN
        /\ read(p, DiskCoord, f, "read_done")
        /\ gh' = [gh EXCEPT ![p] =
                    [NoGh EXCEPT !.watch = TRUE,
                                 !.allowed = { Visible(DiskCoord, f) },
                                 !.startExpired = expired[_fullpath(DiskCoord, f)],
                                 !.startSaved = saved[_fullpath(DiskCoord, f)]]]
    /\ UNCHANGED << cfg, locks, files, expired, tmp, arg, loc, recent, broken,
                    saved, gone >>

ClientSave(p) ==
    /\ ClientIdle(p)
    /\ calls > 0
    /\ calls' = calls - 1
    /\ \E body \in Bodies : save(p, body, DiskCoord, DiskFormat, "save_done")
    /\ gh' = [gh EXCEPT ![p] = NoGh]
    /\ UNCHANGED << cfg, locks, files, expired, tmp, arg, loc, recent, broken,
                    saved, gone >>

ClientRemove(p) ==
    /\ ClientIdle(p)
    /\ calls > 0
    /\ calls' = calls - 1
    /\ remove(DiskCoord, DiskFormat)
    /\ pc' = [pc EXCEPT ![p] = "idle"]
    /\ UNCHANGED << cfg, locks, tmp, ret, op, arg, loc, recent, broken >>

\* --------------------------------------- clients of Disk.lock / unlock
\* a process calls Disk.lock for a key
ClientLock(p) ==
    /\ pc[p] = "idle"
    /\ calls > 0
    /\ calls' = calls - 1
    /\ \E c \in Coords : lock(p, c, "MVT", "held")
    /\ gh' = [gh EXCEPT ![p] = NoGh]
    /\ UNCHANGED << cfg, locks, files, expired, tmp, arg, loc, recent, broken, saved, gone >>

\* the holder calls Disk.unlock for the key it locked
ClientUnlock(p) ==
    /\ pc[p] = "held"
    /\ locks' = unlock(op[p].coord, op[p].format)
    /\ pc' = [pc EXCEPT ![p] = "idle"]
    /\ gh' = [gh EXCEPT ![p].unlocked = _lockpath(op[p].coord, op[p].format)]
    /\ UNCHANGED << cfg, files, expired, tmp, ret, calls, op, arg, loc, recent,
                    broken, saved, gone >>

\* ------------------------------------------------------ _recent_tiles
\* _recent_tiles['hash'][key] = value
Put(hash, key, value) ==
    [ k \in DOMAIN hash \cup { key } |-> IF k = key THEN value ELSE hash[k] ]

\* try: del _recent_tiles['hash'][key] except KeyError: pass
Del(hash, key) == [ k \in DOMAIN hash \ { key } |-> hash[k] ]

\* _recent_tiles['list'].remove(...) of the element at position i
RemoveAt(list, i) ==
    [ j \in 1 .. Len(list) - 1 |-> IF j < i THEN list[j] ELSE list[j + 1] ]

\* the loop of _addRecentTile over _recent_tiles['list'], from position i on:
\* it stops at the first entry that is not due and removes the others from
\* the list it is iterating over and from the hash.  A due time is the
\* number of the _addRecentTile call that set it; the clock has passed the
\* due times up to r.clock.
RECURSIVE PruneRecent(_, _)
PruneRecent(r, i) ==
    IF i > Len(r.list) THEN r
    ELSE LET key    == r.list[i][1]
             due_by == r.list[i][2]
         IN  IF r.clock < due_by THEN r
             ELSE PruneRecent([r EXCEPT !.list = RemoveAt(r.list, i),
                                        !.hash = Del(r.hash, key)], i + 1)

\* _addRecentTile(layer, coord, format, body), age = 300
_addRecentTile(r, coord, format, body) ==
    LET key == << coord, format >>
        due == r.seq + 1
    IN  PruneRecent([r EXCEPT !.seq = due,
                              !.hash = Put(r.hash, key, << body, due >>),
                              !.list = Append(r.list, << key, due >>)], 1)

\* _getRecentTile(layer, coord, format): the body it returns
_getRecentTile(r, coord, format) ==
    LET key == << coord, format >>
    IN  IF key \in DOMAIN r.hash /\ r.clock < r.hash[key][2]
        THEN r.hash[key][1]
        ELSE None

\* _getRecentTile(layer, coord, format): what it leaves in _recent_tiles
_getRecentTile_del(r, coord, format) ==
    LET key == << coord, format >>
    IN  IF key \in DOMAIN r.hash /\ ~ (r.clock < r.hash[key][2])
        THEN [r EXCEPT !.hash = Del(r.hash, key)]
        ELSE r

\* the clock passes the next due time of a process's recent tiles
RecentTimeout(p) ==
    /\ \E i \in DOMAIN recent[p].list :
        /\ recent[p].clock < recent[p].list[i][2]
        /\ recent' = [recent EXCEPT ![p].clock = recent[p].list[i][2]]
    /\ UNCHANGED << cfg, locks, files, expired, tmp, pc, ret, calls, op, arg,
                    loc, gh, broken, saved, gone >>

\* ------------------------------------------------------------- Metatile
\* Metatile.isForReal
isForReal == cfg.buffer > 0 \/ cfg.rows > 1 \/ cfg.columns > 1

\* Metatile.allCoords: left-to-right, top-to-bottom
allCoords_mutant(coord) ==
    [ n \in 1 .. cfg.rows * cfg.columns |->
        Coordinate(coord.row + ((n - 1) \div cfg.columns),
                   coord.column + ((n - 1) % cfg.columns), coord.zoom) ]

allCoords(coord) ==
    LET row    == cfg.rows * (coord.row \div cfg.rows)
        column == cfg.columns * (coord.column \div cfg.columns)
    IN  [ n \in 1 .. cfg.rows * cfg.columns |->
            Coordinate(row + ((n - 1) \div cfg.columns),
                       column + ((n - 1) % cfg.columns), coord.zoom) ]

\* Metatile.firstCoord
firstCoord(coord) == allCoords(coord)[1]

\* Layer.doMetatile
doMetatile == isForReal /\ cfg.renderArea

\* --------------------------------------------------------------- Bounds
\* 2^n
RECURSIVE Pow2(_)
Pow2(n) == IF n = 0 THEN 1 ELSE 2 * Pow2(n - 1)

\* the bounds of a layer that has them: the tile 1/0/0 alone
TheBounds == [ upper_left_high |-> Coordinate(0, 0, 1),
               lower_right_low |-> Coordinate(0, 0, 1) ]

\* Bounds.excludes(tile); zoomTo(z) multiplies row and column by
\* 2^(z - zoom), the comparisons are made here without the division
excludes(bounds, tile) ==
    LET ul == bounds.upper_left_high
        lr == bounds.lower_right_low
    IN  \/ tile.zoom > ul.zoom
        \/ tile.zoom < lr.zoom
        \/ tile.column > lr.column * Pow2(tile.zoom - lr.zoom)
        \/ tile.row > lr.row * Pow2(tile.zoom - lr.zoom)
        \/ (tile.column + 1) * Pow2(ul.zoom - tile.zoom) < ul.column
        \/ (tile.row + 1) * Pow2(ul.zoom - tile.zoom) < ul.row

\* ------------------------------------------------------- Layer.get_tile
\* the data a provider draws a tile from changes between two renders
Versions == { "v1", "v2" }

\* tile.save(buff, format); buff.getvalue() for the tile a provider drew at a
\* coordinate
Body(version, coord) ==
    << "tile", version, ToString(coord.zoom), ToString(coord.column),
       ToString(coord.row) >>

\* Image.new('RGB', (self.dim, self.dim), (0x99, 0x99, 0x99)), saved
Grey == << "grey" >>

\* TheTileLeftANote.content
Note == << "note" >>

TileFormat == "JSON"

\* the entry of a tile is removed by a call of Disk.remove from outside the
\* workers
Remove(coord) ==
    /\ files[_fullpath(coord, TileFormat)] # None
    /\ remove(coord, TileFormat)
    /\ UNCHANGED << cfg, locks, tmp, pc, ret, calls, op, arg, loc, recent,
                    broken >>

GtIdle(p) == pc[p] \in { "idle", "returned", "raised" }

\* _addRecentTile(self, coord, format, body); return mimetype, body
Return(p, body) ==
    /\ recent' = [recent EXCEPT ![p] =
                    _addRecentTile(@, arg[p].coord, arg[p].format, body)]
    /\ pc' = [pc EXCEPT ![p] = "returned"]

\* if body is None: try: lockCoord = None; if (not suppress_cache_write) and
\* self.write_cache: lockCoord = self.metatile.firstCoord(coord);
\* cache.lock(self, lockCoord, format); with a body, the end of get_tile
Try(p, a, body) ==
    IF body # None
    THEN /\ recent' = [recent EXCEPT ![p] =
                         _addRecentTile(_getRecentTile_del(@, a.coord, a.format),
                                        a.coord, a.format, body)]
         /\ pc' = [pc EXCEPT ![p] = "returned"]
         /\ loc' = [loc EXCEPT ![p] = [NoLoc EXCEPT !.body = body]]
         /\ UNCHANGED << op, ret >>
    ELSE /\ recent' = [recent EXCEPT ![p] =
                         _getRecentTile_del(@, a.coord, a.format)]
         /\ IF (~ a.suppress_cache_write) /\ cfg.write_cache
            THEN /\ loc' = [loc EXCEPT ![p] =
                              [NoLoc EXCEPT !.lockCoord = firstCoord(a.coord)]]
                 /\ lock(p, firstCoord(a.coord), a.format, "gt_locked")
            ELSE /\ loc' = [loc EXCEPT ![p] = NoLoc]
                 /\ pc' = [pc EXCEPT ![p] = "gt_locked"]
                 /\ UNCHANGED << op, ret >>

\* get_tile(coord, extension, ignore_cached, suppress_cache_write), up to the
\* first look for a body: _getRecentTile, or the call of cache.read
get_tile(p, coord, ignore_cached, suppress_cache_write) ==
    /\ GtIdle(p)
    /\ calls > 0
    /\ calls' = calls - 1
    /\ LET a == [ coord |-> coord, format |-> TileFormat,
                  ignore_cached |-> ignore_cached,
                  suppress_cache_write |-> suppress_cache_write ]
       IN  /\ arg' = [arg EXCEPT ![p] = a]
           /\ gh' = [ q \in Procs |->
                       IF q = p
                       THEN [NoGh EXCEPT !.key = _fullpath(coord, TileFormat),
                                         !.start = Visible(coord, TileFormat),
                                         !.during = { r \in Procs \ { p } :
                                                        ~ GtIdle(r) }]
                       ELSE [gh[q] EXCEPT !.during = @ \ { p }] ]
           /\ IF ignore_cached
              THEN Try(p, a, _getRecentTile(recent[p], coord, TileFormat))
              ELSE /\ read(p, coord, TileFormat, "gt_read1")
                   /\ loc' = [loc EXCEPT ![p] = NoLoc]
                   /\ UNCHANGED recent
    /\ UNCHANGED << cfg, locks, files, expired, tmp, broken, saved, gone >>

\* body = cache.read(self, coord, format), outside the try: an error of
\* read leaves get_tile
GtRead1(p) ==
    /\ pc[p] = "gt_read1"
    /\ IF op[p].result = Raised
       THEN /\ pc' = [pc EXCEPT ![p] = "raised"]
            /\ op' = [op EXCEPT ![p] = NoOp]
            /\ UNCHANGED << loc, ret, recent >>
       ELSE Try(p, arg[p], op[p].result)
    /\ UNCHANGED << cfg, locks, files, expired, tmp, calls, arg, gh, broken,
                    saved, gone >>

\* if not ignore_cached: body = cache.read(self, coord, format)
GtLocked(p) ==
    /\ pc[p] = "gt_locked"
    /\ IF ~ arg[p].ignore_cached
       THEN read(p, arg[p].coord, arg[p].format, "gt_read2")
       ELSE /\ pc' = [pc EXCEPT ![p] = "gt_render"]
            /\ op' = [op EXCEPT ![p] = NoOp]
            /\ UNCHANGED ret
    /\ UNCHANGED << cfg, locks, files, expired, tmp, calls, arg, loc, recent,
                    gh, broken, saved, gone >>

\* if body is None: ..., after the read under the lock
GtRead2(p) ==
    /\ pc[p] = "gt_read2"
    /\ IF op[p].result = Raised
       THEN /\ loc' = [loc EXCEPT ![p].exc = TRUE]
            /\ pc' = [pc EXCEPT ![p] = "gt_finally"]
       ELSE IF op[p].result # None
       THEN /\ loc' = [loc EXCEPT ![p].body = op[p].result]
            /\ pc' = [pc EXCEPT ![p] = "gt_finally"]
       ELSE /\ pc' = [pc EXCEPT ![p] = "gt_render"]
            /\ UNCHANGED loc
    /\ op' = [op EXCEPT ![p] = NoOp]
    /\ UNCHANGED << cfg, locks, files, expired, tmp, ret, calls, arg, recent,
                    gh, broken, saved, gone >>

\* what provider.renderArea / provider.renderTile does: it returns a tile or
\* raises NoTileLeftBehind, TheTileLeftANote or another exception
Outcomes == { "tile", "NoTileLeftBehind", "TheTileLeftANote", "Exception" }

\* save = True; ... except NoTileLeftBehind, e: tile = e.tile; save = False
save_flag_mutant(outcome) == TRUE

save_flag(outcome) == outcome # "NoTileLeftBehind"

\* tile = self.render(coord, format): Layer.render up to the provider's
\* return, with the handlers of get_tile for what it raises
GtRender(p) ==
    /\ pc[p] = "gt_render"
    /\ IF cfg.bounds /\ excludes(TheBounds, arg[p].coord)
       THEN /\ loc' = [loc EXCEPT ![p].tile = Grey,
                                  ![p].save = save_flag("NoTileLeftBehind")]
            /\ pc' = [pc EXCEPT ![p] = "gt_tile_save"]
            /\ gh' = [gh EXCEPT ![p].rendered = @ + 1,
                                  ![p].outcome = "NoTileLeftBehind"]
       ELSE \E outcome \in Outcomes, version \in Versions :
            /\ gh' = [gh EXCEPT ![p].rendered = @ + 1, ![p].outcome = outcome]
            /\ CASE outcome = "tile" /\ doMetatile ->
                      /\ loc' = [loc EXCEPT ![p].version = version, ![p].i = 1]
                      /\ pc' = [pc EXCEPT ![p] = "gt_subtile"]
                 [] outcome = "tile" /\ ~ doMetatile ->
                      /\ loc' = [loc EXCEPT ![p].tile = Body(version, arg[p].coord),
                                            ![p].save = save_flag(outcome)]
                      /\ pc' = [pc EXCEPT ![p] = "gt_tile_save"]
                 [] outcome = "NoTileLeftBehind" ->
                      /\ loc' = [loc EXCEPT ![p].tile = Body(version, arg[p].coord),
                                            ![p].save = save_flag(outcome)]
                      /\ pc' = [pc EXCEPT ![p] = "gt_tile_save"]
                 [] outcome = "TheTileLeftANote" ->
                      /\ version = "v1"
                      /\ loc' = [loc EXCEPT ![p].body = Note]
                      /\ pc' = [pc EXCEPT ![p] = "gt_finally"]
                 [] outcome = "Exception" ->
                      /\ version = "v1"
                      /\ loc' = [loc EXCEPT ![p].exc = TRUE]
                      /\ pc' = [pc EXCEPT ![p] = "gt_finally"]
    /\ UNCHANGED << cfg, locks, files, expired, tmp, ret, calls, op, arg,
                    recent, broken, saved, gone >>

\* Layer.render, if self.doMetatile(): for (other, x, y) in subtiles: ...
\* if self.write_cache: self.config.cache.save(body, self, other, format);
\* after the loop, return tile
GtSubtile(p) ==
    /\ pc[p] = "gt_subtile"
    /\ LET subtiles == allCoords(arg[p].coord)
           other    == subtiles[loc[p].i]
       IN  IF loc[p].i > Len(subtiles)
           THEN /\ loc' = [loc EXCEPT ![p].tile = Body(loc[p].version, arg[p].coord),
                                      ![p].save = save_flag("tile")]
                /\ pc' = [pc EXCEPT ![p] = "gt_tile_save"]
                /\ UNCHANGED << op, ret, recent, gh >>
           ELSE IF cfg.write_cache
           THEN /\ save(p, Body(loc[p].version, other), other, arg[p].format,
                        "gt_subsaved")
                /\ gh' = [gh EXCEPT ![p].saves = @ + 1]
                /\ UNCHANGED << loc, recent >>
           ELSE /\ recent' = [recent EXCEPT ![p] =
                     _addRecentTile(@, other, arg[p].format,
                                    Body(loc[p].version, other))]
                /\ loc' = [loc EXCEPT ![p].i = @ + 1]
                /\ UNCHANGED << pc, op, ret, gh >>
    /\ UNCHANGED << cfg, locks, files, expired, tmp, calls, arg, broken,
                    saved, gone >>

\* Layer.render, in the loop: _addRecentTile(self, other, format, body)
GtSubsaved(p) ==
    /\ pc[p] = "gt_subsaved"
    /\ IF op[p].result = Raised
       THEN /\ loc' = [loc EXCEPT ![p].exc = TRUE]
            /\ pc' = [pc EXCEPT ![p] = "gt_finally"]
            /\ UNCHANGED recent
       ELSE LET other == allCoords(arg[p].coord)[loc[p].i]
            IN  /\ recent' = [recent EXCEPT ![p] =
                     _addRecentTile(@, other, arg[p].format,
                                    Body(loc[p].version, other))]
                /\ loc' = [loc EXCEPT ![p].i = @ + 1]
                /\ pc' = [pc EXCEPT ![p] = "gt_subtile"]
    /\ op' = [op EXCEPT ![p] = NoOp]
    /\ UNCHANGED << cfg, locks, files, expired, tmp, ret, calls, arg, gh,
                    broken, saved, gone >>

\* whether get_tile saves the body of the tile it holds
save_tile_mutant(a, flag) == FALSE

save_tile(a, flag) ==
    IF a.suppress_cache_write \/ (~ cfg.write_cache) THEN FALSE ELSE flag

\* if suppress_cache_write or (not self.write_cache): save = False;
\* tile.save(buff, format); body = buff.getvalue();
\* if save: cache.save(body, self, coord, format)
GtTileSave(p) ==
    /\ pc[p] = "gt_tile_save"
    /\ loc' = [loc EXCEPT ![p].body = loc[p].tile]
    /\ IF save_tile(arg[p], loc[p].save)
       THEN /\ save(p, loc[p].tile, arg[p].coord, arg[p].format, "gt_saved")
            /\ gh' = [gh EXCEPT ![p].saves = @ + 1]
       ELSE /\ pc' = [pc EXCEPT ![p] = "gt_finally"]
            /\ UNCHANGED << op, ret, gh >>
    /\ UNCHANGED << cfg, locks, files, expired, tmp, calls, arg, recent,
                    broken, saved, gone >>

\* cache.save has returned or raised
GtSaved(p) ==
    /\ pc[p] = "gt_saved"
    /\ loc' = [loc EXCEPT ![p].exc = (op[p].result = Raised)]
    /\ pc' = [pc EXCEPT ![p] = "gt_finally"]
    /\ op' = [op EXCEPT ![p] = NoOp]
    /\ UNCHANGED << cfg, locks, files, expired, tmp, ret, calls, arg, recent,
                    gh, broken, saved, gone >>

\* finally: if lockCoord: ...
finally_unlock_mutant(lockCoord, exc) == lockCoord # NoCoord /\ ~ exc

finally_unlock(lockCoord, exc) == lockCoord # NoCoord

\* finally: if lockCoord: cache.unlock(self, lockCoord, format); then the
\* exception goes on, or _addRecentTile(self, coord, format, body) and return
GtFinally(p) ==
    /\ pc[p] = "gt_finally"
    /\ IF finally_unlock(loc[p].lockCoord, loc[p].exc)
       THEN /\ locks' = unlock(loc[p].lockCoord, arg[p].format)
            /\ gh' = [gh EXCEPT ![p].unlocked =
                        _lockpath(loc[p].lockCoord, arg[p].format)]
       ELSE UNCHANGED << locks, gh >>
    /\ IF loc[p].exc
       THEN /\ pc' = [pc EXCEPT ![p] = "raised"]
            /\ UNCHANGED recent
       ELSE Return(p, loc[p].body)
    /\ UNCHANGED << cfg, files, expired, tmp, ret, calls, op, arg, loc,
                    broken, saved, gone >>

\* a worker is asked for a tile
GetTile(p) ==
    \E coord \in Coords, ic \in BOOLEAN, scw \in BOOLEAN :
        get_tile(p, coord, ic, scw)

\* ------------------------------------------------------- configuration
DefaultCfg == [ platform |-> "posix", gzip |-> gzip, cache_lifespan |-> FALSE,
                write_cache |-> TRUE, rows |-> 1, columns |-> 1, buffer |-> 0,
                renderArea |-> FALSE, bounds |-> FALSE ]

InitCommon ==
    /\ locks = {}
    /\ files = [ path \in Paths |-> None ]
    /\ expired = [ path \in Paths |-> FALSE ]
    /\ tmp = [ p \in Procs |-> None ]
    /\ pc = [ p \in Procs |-> "idle" ]
    /\ ret = [ p \in Procs |-> "None" ]
    /\ op = [ p \in Procs |-> NoOp ]
    /\ arg = [ p \in Procs |-> NoArg ]
    /\ loc = [ p \in Procs |-> NoLoc ]
    /\ recent = [ p \in Procs |-> NoRecent ]
    /\ gh = [ p \in Procs |-> NoGh ]
    /\ broken = {}
    /\ saved = [ path \in Paths |-> None ]
    /\ gone = {}

\* ------------------------------------- specification: the lock protocol
InitLock ==
    /\ cfg = DefaultCfg
    /\ calls = LockCalls
    /\ InitCommon

NextLock ==
    \E p \in Procs :
        \/ ClientLock(p)
        \/ StaleLockTimeout(p)
        \/ LockLoop(p)
        \/ LockMakedirs(p)
        \/ LockSleep(p)
        \/ ClientUnlock(p)

SpecLock == InitLock /\ [][NextLock]_vars

\* the waiter is scheduled, its sleep ends and the clock advances
LiveLock ==
    /\ SpecLock
    /\ \A p \in Procs : WF_vars(Lock(p)) /\ WF_vars(StaleLockTimeout(p))

\* --------------------------- specification: two workers, one tile each
\* the layer configurations: metatile and provider, bounds, lifespan, write
\* cache, and the rename of the platform
Configs ==
    { DefaultCfg,
      [DefaultCfg EXCEPT !.platform = "nt"],
      [DefaultCfg EXCEPT !.cache_lifespan = TRUE],
      [DefaultCfg EXCEPT !.write_cache = FALSE],
      [DefaultCfg EXCEPT !.bounds = TRUE],
      [DefaultCfg EXCEPT !.columns = 2] }

\* the layers whose provider renders the area of a real metatile at once
MetaConfigs ==
    { [DefaultCfg EXCEPT !.columns = 2, !.renderArea = TRUE],
      [DefaultCfg EXCEPT !.columns = 2, !.renderArea = TRUE,
                         !.write_cache = FALSE] }

InitTile ==
    /\ cfg \in Configs
    /\ calls = MaxCalls
    /\ InitCommon

NextTile ==
    \/ \E p \in Procs :
        \/ GetTile(p)
        \/ GtRead1(p)
        \/ GtLocked(p)
        \/ GtRead2(p)
        \/ GtRender(p)
        \/ GtTileSave(p)
        \/ GtSaved(p)
        \/ GtFinally(p)
        \/ StaleLockTimeout(p)
        \/ LockLoop(p)
        \/ LockMakedirs(p)
        \/ LockSleep(p)
        \/ ReadExists(p)
        \/ ReadStat(p)
        \/ ReadOpen(p)
        \/ SaveWrite(p)
        \/ SaveRename(p)
        \/ SaveUnlink(p)
        \/ SaveRename2(p)
        \/ SaveChmod(p)
        \/ RecentTimeout(p)
    \/ \E path \in Paths : CacheLifespan(path)
    \/ \E coord \in Coords : Remove(coord)

SpecTile == InitTile /\ [][NextTile]_vars

\* ------------------- specification: workers and tiles of a real metatile
InitMeta ==
    /\ cfg \in MetaConfigs
    /\ calls = MaxCalls
    /\ InitCommon

\* a worker is asked for a tile, to be read from the cache if it is there
GetTileCached(p) ==
    \E coord \in Coords, scw \in BOOLEAN : get_tile(p, coord, FALSE, scw)

NextMeta ==
    \E p \in Procs :
        \/ GetTileCached(p)
        \/ GtRead1(p)
        \/ GtLocked(p)
        \/ GtRead2(p)
        \/ GtRender(p)
        \/ GtSubtile(p)
        \/ GtSubsaved(p)
        \/ GtTileSave(p)
        \/ GtSaved(p)
        \/ GtFinally(p)
        \/ StaleLockTimeout(p)
        \/ LockLoop(p)
        \/ LockMakedirs(p)
        \/ LockSleep(p)
        \/ ReadExists(p)
        \/ ReadStat(p)
        \/ ReadOpen(p)
        \/ SaveWrite(p)
        \/ SaveRename(p)
        \/ SaveChmod(p)
        \/ RecentTimeout(p)

SpecMeta == InitMeta /\ [][NextMeta]_vars

\* ---------------------------------- specification: the Disk cache files
InitSave ==
    /\ cfg \in { [DefaultCfg EXCEPT !.platform = pf, !.cache_lifespan = cl,
                                    !.gzip = gz] :
                    pf \in { "posix", "nt" }, cl \in BOOLEAN, gz \in { gzip, {} } }
    /\ calls = DiskCalls
    /\ InitCommon

NextSave ==
    \/ \E p \in Procs :
        \/ ClientRead(p)
        \/ ClientSave(p)
        \/ ClientRemove(p)
        \/ ReadExists(p)
        \/ ReadStat(p)
        \/ ReadOpen(p)
        \/ SaveWrite(p)
        \/ SaveRename(p)
        \/ SaveUnlink(p)
        \/ SaveRename2(p)
        \/ SaveChmod(p)
    \/ \E path \in Paths : CacheLifespan(path)

SpecSave == InitSave /\ [][NextSave]_vars

\* C5: a Disk.read returns the complete bytes the file held when the read
\* began or the complete bytes a save published while it ran (absent or an
\* error only after a remove, absent after the lifespan passed), never a
\* partial file and never absent because of a save.
C5_AtomicPublish ==
    \A p \in Procs :
        (pc[p] = "read_done" /\ gh[p].watch) => op[p].result \in gh[p].allowed

Holders(coord, format) ==
    { p \in Procs : pc[p] = "held" /\ op[p].coord = coord /\ op[p].format = format }

InLock(p) == pc[p] \in { "lock_loop", "lock_makedirs", "lock_sleep" }

\* C1 as stated: for every key at most one process holds the lock, at every
\* moment and whatever the timing of the calls.
C1_MutualExclusionAlways ==
    \A c \in Coords, f \in Formats : Cardinality(Holders(c, f)) <= 1

\* C1 as amended: for every key at most one process holds the lock, as long
\* as no Disk.lock call for that key has removed the lock directory by force
\* after waiting longer than stale_lock_timeout.
C1_MutualExclusionUnlessBroken ==
    \A c \in Coords, f \in Formats :
        _lockpath(c, f) \notin broken => Cardinality(Holders(c, f)) <= 1

\* one process holds a key whose lock was never forced while another has
\* found the directory present and sleeps
C1_Witness ==
    \E p, q \in Procs, c \in Coords, f \in Formats :
        /\ p # q
        /\ Holders(c, f) = { p }
        /\ pc[q] = "lock_sleep" /\ op[q].coord = c /\ op[q].format = f
        /\ _lockpath(c, f) \notin broken

\* C4: a process whose Disk.lock call has waited past its due time
\* eventually returns from Disk.lock, also when the holder never unlocks.
C4_StaleLockBroken ==
    \A p \in Procs : (InLock(p) /\ op[p].pastDue) ~> (pc[p] = "held")

\* a waiter has returned from Disk.lock for a key that another process
\* still holds: it waited past its due time and removed the directory
C4_Witness ==
    \E p, q \in Procs :
        /\ p # q
        /\ pc[p] = "held" /\ pc[q] = "held" /\ op[q].pastDue
        /\ op[p].coord = op[q].coord /\ op[p].format = op[q].format
        /\ _lockpath(op[q].coord, op[q].format) \in broken

\* ------------------------------------------------- claims on get_tile
\* the get_tile call of a process has ended by a return or by an exception
Finished(p) == pc[p] \in { "returned", "raised" }

\* the get_tile calls of two processes have both returned bytes, were for
\* the same key with ignore_cached false and the cache written to, began when
\* the cache held nothing for the key, and one began while the other ran
ColdRace(p, q) ==
    /\ p # q
    /\ pc[p] = "returned" /\ pc[q] = "returned"
    /\ arg[p].coord = arg[q].coord /\ arg[p].format = arg[q].format
    /\ ~ arg[p].ignore_cached /\ ~ arg[q].ignore_cached
    /\ ~ arg[p].suppress_cache_write /\ ~ arg[q].suppress_cache_write
    /\ cfg.write_cache
    /\ gh[p].start = None /\ gh[q].start = None
    /\ (q \in gh[p].during \/ p \in gh[q].during)

\* C2 as stated: of two concurrent get_tile calls for the same key on a cold
\* cache exactly one has called the renderer, and both return the same bytes.
C2_ExactlyOneRender ==
    \A p, q \in Procs :
        ColdRace(p, q) =>
            /\ gh[p].rendered + gh[q].rendered = 1
            /\ loc[p].body = loc[q].body

\* the render of a call, if it made one, returned a tile
Normal(p) == gh[p].outcome \in { "None", "tile" }

\* the entry of the key of two calls is the one that one of them saved last:
\* no other call has saved the key since
SavedByOneOf(p, q) == gh[p].mine = "yes" \/ gh[q].mine = "yes"

\* C2 as amended: of two concurrent get_tile calls for the same key on a cold
\* cache exactly one has called the renderer and both return the same bytes,
\* provided no Disk.lock call has removed the lock of the key by force, the
\* render returned a tile (rather than raising NoTileLeftBehind or
\* TheTileLeftANote), the entry has neither expired nor been removed, and
\* no third call has saved the key.
C2_ExactlyOneRenderUnlessBroken ==
    \A p, q \in Procs :
        ( /\ ColdRace(p, q)
          /\ _lockpath(firstCoord(arg[p].coord), arg[p].format) \notin broken
          /\ Normal(p) /\ Normal(q)
          /\ gh[p].key \notin gone
          /\ SavedByOneOf(p, q) )
        => /\ gh[p].rendered + gh[q].rendered = 1
           /\ loc[p].body = loc[q].body

\* two concurrent calls on a cold cache have returned: one rendered and
\* saved, the other took the lock after it and found the bytes under the lock
C2_Witness ==
    \E p, q \in Procs :
        /\ ColdRace(p, q)
        /\ _lockpath(firstCoord(arg[p].coord), arg[p].format) \notin broken
        /\ gh[p].key \notin gone
        /\ gh[p].mine = "yes"
        /\ gh[p].rendered = 1 /\ gh[p].outcome = "tile"
        /\ gh[q].rendered = 0 /\ gh[q].locked # << >>
        /\ loc[q].body = loc[p].body

\* C3: a get_tile call that has acquired the cache lock and has returned or
\* raised has called unlock for the lock it acquired.
C3_UnlockOnEveryExit ==
    \A p \in Procs :
        (Finished(p) /\ gh[p].locked # << >>) => gh[p].unlocked = gh[p].locked

\* a call that acquired the lock has ended with an exception and has unlocked
C3_Witness ==
    \E p \in Procs :
        /\ pc[p] = "raised"
        /\ gh[p].locked # << >>
        /\ gh[p].unlocked = gh[p].locked
        /\ gh[p].locked \notin locks

\* C7: a returned get_tile call with ignore_cached false (a) that began with
\* bytes in the cache for its key, and during which the entry was not
\* removed, overwritten or expired, returns those bytes without calling the
\* renderer; (b) that rendered a tile with cache writes enabled has saved
\* it, and the cache holds the returned bytes for the key until the entry is
\* removed, overwritten or expired.
C7_ReadThroughWriteThrough ==
    \A p \in Procs :
        (pc[p] = "returned" /\ ~ arg[p].ignore_cached) =>
            /\ (gh[p].start # None /\ gh[p].quiet) =>
                   (loc[p].body = gh[p].start /\ gh[p].rendered = 0)
            /\ ( /\ gh[p].outcome = "tile"
                 /\ ~ arg[p].suppress_cache_write
                 /\ cfg.write_cache ) =>
                   /\ gh[p].mine # "no"
                   /\ gh[p].mine = "yes" =>
                          Visible(arg[p].coord, arg[p].format) = loc[p].body

\* one call has rendered a tile and saved it, and a later call of another
\* process for the key has returned those bytes without rendering
C7_Witness ==
    \E p, q \in Procs :
        /\ p # q
        /\ pc[p] = "returned" /\ pc[q] = "returned"
        /\ ~ arg[p].ignore_cached /\ ~ arg[q].ignore_cached
        /\ gh[p].outcome = "tile" /\ gh[p].mine = "yes"
        /\ arg[q].coord = arg[p].coord
        /\ gh[q].start = loc[p].body /\ gh[q].quiet
        /\ gh[q].rendered = 0 /\ loc[q].body = loc[p].body

\* C8: a returned get_tile call with ignore_cached true has called the
\* renderer.
C8_AlwaysRerenders ==
    \A p \in Procs :
        (pc[p] = "returned" /\ arg[p].ignore_cached) => gh[p].rendered > 0

\* C9: a get_tile call with suppress_cache_write true that has returned or
\* raised has changed no file of the cache.
C9_SuppressCacheWrite ==
    \A p \in Procs :
        (Finished(p) /\ arg[p].suppress_cache_write) =>
            (~ gh[p].wrote /\ gh[p].saves = 0)

\* C10: a get_tile call whose render raised NoTileLeftBehind has returned
\* the bytes of the tile the exception carried, and has neither called
\* cache.save nor changed a file of the cache.
C10_NoTileLeftBehind ==
    \A p \in Procs :
        (Finished(p) /\ gh[p].outcome = "NoTileLeftBehind") =>
            /\ pc[p] = "returned"
            /\ loc[p].tile # None /\ loc[p].body = loc[p].tile
            /\ gh[p].saves = 0 /\ ~ gh[p].wrote

\* a call that would have saved a rendered tile has returned the tile a
\* provider raised with NoTileLeftBehind, and the cache holds nothing for it
C10_Witness ==
    \E p \in Procs :
        /\ pc[p] = "returned"
        /\ gh[p].outcome = "NoTileLeftBehind"
        /\ ~ arg[p].suppress_cache_write /\ cfg.write_cache
        /\ loc[p].body = Body("v1", arg[p].coord)
        /\ gh[p].saves = 0
        /\ files[gh[p].key] = None

\* ======================================================================
\* Single calls of the functions that compute a value from their arguments.
\* One call is one behaviour: arg holds the arguments the caller passes,
\* pc is "call" before the function has run and "done" after, ret holds
\* what it returned.  The cache directory and the workers take no part.
InitRest ==
    /\ cfg = DefaultCfg
    /\ calls = 0
    /\ locks = {}
    /\ files = [ path \in Paths |-> None ]
    /\ expired = [ path \in Paths |-> FALSE ]
    /\ tmp = [ p \in Procs |-> None ]
    /\ op = [ p \in Procs |-> NoOp ]
    /\ loc = [ p \in Procs |-> NoLoc ]
    /\ recent = [ p \in Procs |-> NoRecent ]
    /\ gh = [ p \in Procs |-> NoGh ]
    /\ broken = {}
    /\ saved = [ path \in Paths |-> None ]
    /\ gone = {}

\* the function returns value to its caller
Returns(value) ==
    /\ pc = "call"
    /\ pc' = "done"
    /\ ret' = value
    /\ UNCHANGED << cfg, locks, files, expired, tmp, calls, op, arg, loc,
                    recent, gh, broken, saved, gone >>

\* ------------------------------------------- Disk.read: the age of a file
MaxLifespan == 2
MaxAge == 3

\* if layer.cache_lifespan and age > layer.cache_lifespan: None and 0 are
\* false in Python
too_old_mutant(cache_lifespan, age) ==
    cache_lifespan # None /\ age > cache_lifespan[1]

too_old(cache_lifespan, age) ==
    cache_lifespan # None /\ cache_lifespan[1] # 0 /\ age > cache_lifespan[1]

\* Disk.read of an existing file whose content and age are given
read_file(cache_lifespan, age, format, content) ==
    IF too_old(cache_lifespan, age) THEN None
    ELSE read_body(format, content)

\* a layer, and a file Disk.save wrote for it some time ago.
\* layer.cache_lifespan is None when the layer has no "cache lifespan", else
\* the one-element tuple of int(layer_dict['cache lifespan']); age is
\* time.time() - os.stat(fullpath).st_mtime, in seconds
InitAge ==
    /\ arg \in [ cache_lifespan : { None } \cup
                                    { << n >> : n \in 0 .. MaxLifespan },
                 age : 0 .. MaxAge, format : Formats, body : Bodies ]
    /\ pc = "call"
    /\ ret = None
    /\ InitRest

ReadAged ==
    Returns(read_file(arg.cache_lifespan, arg.age, arg.format,
                      save_body(arg.format, arg.body)))

NextAge == ReadAged

SpecAge == InitAge /\ [][NextAge]_vars

MaxQueries == 3
MaxZoom == 3

\* tolerances = [... for zoom in range(22)]
NumTolerances == 22

\* an entry of the "queries" list of a layer: null, the empty string or the
\* text of a query
Queries == { None, << "" >>, << "Q1" >>, << "Q2" >> }

\* Provider.render_tile(layer, coord) for a layer whose columns are not yet
\* known; layer.queries holds the entries of the configured list and no
\* others (Layer.__init__ of layer.py appends each of them once).
\* tolerances[coord.zoom] and layer.queries[coord.zoom] raise an IndexError
\* past the end of the list; a false query gives EmptyResponse; otherwise
\* query_columns runs the query with LIMIT 0 and Response.__init__ reads
\* layer.simplify_before_intersect, which Layer never sets.  The result is
\* the response object or the error, the query chosen and the statements
\* sent to the database
render_tile(queries, zoom) ==
    IF zoom >= NumTolerances \/ zoom >= Len(queries)
    THEN [ raised |-> << "IndexError" >>, response |-> "", query |-> None,
           statements |-> << >> ]
    ELSE LET query == queries[zoom + 1]
         IN  IF query = None \/ query = << "" >>
             THEN [ raised |-> None, response |-> "EmptyResponse",
                    query |-> None, statements |-> << >> ]
             ELSE [ raised |-> << "AttributeError" >>, response |-> "",
                    query |-> query,
                    statements |-> << << "columns" >> \o query >> ]

\* mvt.encode(file, name, features) and get_feature_layer: the loop
\* "for feature in features" over the third argument
mvt_encode(name, features) ==
    IF features = << "None" >> THEN << "TypeError" >>
    ELSE << "MVT", "layer" >> \o features

\* geojson.encode(file, features, zoom): a FeatureCollection
geojson_encode(features) == << "JSON", "FeatureCollection" >> \o features

\* EmptyResponse.save(out, format): mvt.encode(out, [], None) hands None as
\* the features; geojson.encode(out, [], 0)
EmptyResponse_save(format) ==
    IF format = "MVT" THEN mvt_encode(<< >>, << "None" >>)
    ELSE geojson_encode(<< >>)

\* Layer.render of core.py: tile = provider.render_tile(...), then
\* tile.save(out, format); what the request gets and what the database saw
render(queries, zoom, format) ==
    LET tile == render_tile(queries, zoom)
    IN  [ body |-> IF tile.raised # None THEN tile.raised
                   ELSE EmptyResponse_save(format),
          query |-> tile.query,
          statements |-> tile.statements ]

RECURSIVE SeqsUpTo(_, _)
SeqsUpTo(S, n) ==
    IF n = 0 THEN { << >> }
    ELSE LET shorter == SeqsUpTo(S, n - 1)
         IN  shorter \cup { Append(q, x) : q \in shorter, x \in S }

InitQuery ==
    /\ arg \in [ queries : SeqsUpTo(Queries, MaxQueries) \ { << >> },
                 zoom : 0 .. MaxZoom, format : Formats ]
    /\ pc = "call"
    /\ ret = None
    /\ InitRest

Render == Returns(render(arg.queries, arg.zoom, arg.format))

NextQuery == Render

SpecQuery == InitQuery /\ [][NextQuery]_vars

\* the last entry of a queries list that is a query
RECURSIVE LastQuery(_)
LastQuery(queries) ==
    IF queries = << >> THEN None
    ELSE LET last == queries[Len(queries)]
         IN  IF last = None \/ last = << "" >>
             THEN LastQuery(SubSeq(queries, 1, Len(queries) - 1))
             ELSE last

\* C12: for a queries list of n entries and a request at zoom z >= n, the
\* request does not fail and the query used is the last non-null entry of
\* the list.
C12_LastQueryRepeated ==
    (pc = "done" /\ arg.zoom >= Len(arg.queries)) =>
        /\ ret.body # << "IndexError" >>
        /\ ret.query = LastQuery(arg.queries)

\* C13: when the queries entry of the requested zoom is null or empty, the
\* request gets an empty tile in the requested format and no statement was
\* sent to the database.
C13_EmptyTileNoStatement ==
    (/\ pc = "done"
     /\ arg.zoom < Len(arg.queries)
     /\ arg.queries[arg.zoom + 1] \in { None, << "" >> }) =>
        /\ ret.body \notin { << "IndexError" >>, << "TypeError" >>,
                           << "AttributeError" >> }
        /\ ret.body[1] = arg.format
        /\ ret.statements = << >>

\* C15: an OSError / IOError raised by cache.read or cache.save during
\* get_tile does not make get_tile fail: get_tile raises only what the
\* provider raised.
C15_CacheFailuresTolerated ==
    \A p \in Procs : pc[p] = "raised" => gh[p].outcome = "Exception"

\* ------------------------------------------- requests that name a layer
\* config.layers.keys(): the one layer whose tiles the workers cache
ConfigLayers == { "L" }

\* the layer part of a request, as the list layer.split(','): the empty
\* name, single names and names joined by the delimiter
LayerNames == { << >>, << "L" >>, << "X" >>, << "L", "X" >>, << "X", "L" >> }

\* isValidLayer(layer, config), multi_providers being the configured layers
\* whose provider has 'names'
isValidLayer(layer, multi_providers) ==
    IF layer = << >> THEN FALSE
    ELSE IF Len(layer) = 1 /\ layer[1] \in ConfigLayers THEN TRUE
    ELSE IF Len(layer) > 1
    THEN \A i \in 1 .. Len(layer) :
            layer[i] \in ConfigLayers /\ layer[i] \notin multi_providers
    ELSE FALSE

\* raise IOError("Layer not found: " + layer) in app.get_tile, raise
\* Core.KnownUnknown(unknownLayerMessage(config, layername)) in requestLayer
UnknownLayer == { << "IOError", "Layer not found" >>, << "KnownUnknown" >> }

\* the request ends with the error
Refuse_mutant(p, coord, error) ==
    /\ GtIdle(p)
    /\ calls > 0
    /\ calls' = calls - 1
    /\ pc' = [pc EXCEPT ![p] = "raised"]
    /\ op' = [op EXCEPT ![p] = [NoOp EXCEPT !.result = error]]
    /\ locks' = locks \cup { _lockpath(coord, TileFormat) }
    /\ gh' = [gh EXCEPT ![p] = [NoGh EXCEPT !.locked =
                                   _lockpath(coord, TileFormat)]]
    /\ UNCHANGED << cfg, files, expired, tmp, ret, arg, loc, recent,
                    broken, saved, gone >>

Refuse(p, coord, error) ==
    /\ GtIdle(p)
    /\ calls > 0
    /\ calls' = calls - 1
    /\ pc' = [pc EXCEPT ![p] = "raised"]
    /\ op' = [op EXCEPT ![p] = [NoOp EXCEPT !.result = error]]
    /\ gh' = [gh EXCEPT ![p] = NoGh]
    /\ UNCHANGED << cfg, locks, files, expired, tmp, ret, arg, loc, recent,
                    broken, saved, gone >>

\* app.get_tile(layer, z, x, y, ext): if layer not in config.layers: raise
\* IOError; else the layer's tile with ignore_cached and
\* suppress_cache_write False
AppGetTile(p) ==
    \E layer \in LayerNames, coord \in Coords :
        IF Len(layer) = 1 /\ layer[1] \in ConfigLayers
        THEN get_tile(p, coord, FALSE, FALSE)
        ELSE Refuse(p, coord, << "IOError", "Layer not found" >>)

\* requestLayer(config, path_info) and, with the layer it returns, getTile
RequestLayer(p) ==
    \E layer \in LayerNames, coord \in Coords, ic \in BOOLEAN, scw \in BOOLEAN :
        IF isValidLayer(layer, {})
        THEN get_tile(p, coord, ic, scw)
        ELSE Refuse(p, coord, << "KnownUnknown" >>)

InitApp ==
    /\ cfg = DefaultCfg
    /\ calls = MaxCalls
    /\ InitCommon

NextApp ==
    \/ \E p \in Procs :
        \/ AppGetTile(p)
        \/ RequestLayer(p)
        \/ GtRead1(p)
        \/ GtLocked(p)
        \/ GtRead2(p)
        \/ GtRender(p)
        \/ GtTileSave(p)
        \/ GtSaved(p)
        \/ GtFinally(p)
        \/ StaleLockTimeout(p)
        \/ LockLoop(p)
        \/ LockMakedirs(p)
        \/ LockSleep(p)
        \/ ReadExists(p)
        \/ ReadStat(p)
        \/ ReadOpen(p)
        \/ SaveWrite(p)
        \/ SaveRename(p)
        \/ SaveChmod(p)
        \/ RecentTimeout(p)
    \/ \E coord \in Coords : Remove(coord)

SpecApp == InitApp /\ [][NextApp]_vars

RECURSIVE zfill(_, _)
zfill(n, width) ==
    IF n < 10 /\ width <= 1 THEN << ToString(n) >>
    ELSE Append(zfill(n \div 10, width - 1), ToString(n % 10))

\* sep.join(parts), each part a list of characters or a string
RECURSIVE join(_, _)
join(sep, parts) ==
    IF parts = << >> THEN ""
    ELSE IF Len(parts) = 1 THEN parts[1]
    ELSE parts[1] \o sep \o join(sep, Tail(parts))

\* e = format.lower(); e += self._is_compressed(format) and '.gz' or ''
extension(format) ==
    lower(format) \o (IF _is_compressed(format) THEN ".gz" ELSE "")

\* x = '%06d' % coord.column; y = '%06d' % coord.row; x1, x2 = x[:3], x[3:];
\* y1, y2 = y[:3], y[3:]; os.sep.join((l, z, x1, x2, y1, y2 + '.' + e))
_filepath_safe_mutant(l, coord, format) ==
    LET x == zfill(coord.column, 6)
        y == zfill(coord.row, 6)
    IN  join("/", << l, join("", zfill(coord.zoom, 1)),
                     join("", SubSeq(y, 1, 3)), join("", SubSeq(y, 4, Len(y))),
                     join("", SubSeq(x, 1, 3)),
                     join("", SubSeq(x, 4, Len(x))) \o "." \o extension(format) >>)

_filepath_safe(l, coord, format) ==
    LET x == zfill(coord.column, 6)
        y == zfill(coord.row, 6)
    IN  join("/", << l, join("", zfill(coord.zoom, 1)),
                     join("", SubSeq(x, 1, 3)), join("", SubSeq(x, 4, Len(x))),
                     join("", SubSeq(y, 1, 3)),
                     join("", SubSeq(y, 4, Len(y))) \o "." \o extension(format) >>)

\* str(int(y+x, 2)) for one binary digit of the row and one of the column
quaddigit_mutant(x, y) == ToString(2 * x + y)

quaddigit(x, y) == ToString(2 * y + x)

\* pad, length = 1 << 31, 1 + coord.zoom; xs = bin(pad + column)[-length:];
\* ys = bin(pad + row)[-length:]: the length low binary digits, the highest
\* first; dirpath = ''.join([str(int(y+x, 2)) for (x, y) in zip(xs, ys)]),
\* as the list of its characters
dirpath(coord) ==
    LET length == 1 + coord.zoom
    IN  [ i \in 1 .. length |->
            quaddigit((coord.column \div Pow2(length - i)) % 2,
                      (coord.row \div Pow2(length - i)) % 2) ]

\* parts = [dirpath[i:i+3] for i in range(0, len(dirpath), 3)];
\* os.sep.join([l] + parts[:-1] + [parts[-1] + '.' + e])
_filepath_quadtile(l, coord, format) ==
    LET d     == dirpath(coord)
        count == (Len(d) + 2) \div 3
        parts == [ k \in 1 .. count |->
                     join("", SubSeq(d, 3 * k - 2,
                                     IF 3 * k < Len(d) THEN 3 * k ELSE Len(d))) ]
    IN  join("/", << l >> \o SubSeq(parts, 1, count - 1))
          \o "/" \o parts[count] \o "." \o extension(format)

\* the tiles and formats whose path is asked for
PathCoords ==
    { Coordinate(r, c, z) : r \in { 0, 1, 2, 1582, 999999 },
                            c \in { 0, 1, 3, 656, 999999 },
                            z \in { 1, 2, 12 } }

InitPath ==
    /\ arg \in [ dirs : { "safe", "quadtile" }, coord : PathCoords,
                 format : { "PNG", "JSON" } ]
    /\ pc = "call"
    /\ ret = None
    /\ InitRest

Filepath ==
    Returns(IF arg.dirs = "safe"
            THEN _filepath_safe("L", arg.coord, arg.format)
            ELSE _filepath_quadtile("L", arg.coord, arg.format))

NextPath == Filepath

SpecPath == InitPath /\ [][NextPath]_vars

\* C16: with dirs='safe' and 0 <= x, y < 10^6 the path is
\* <layer>/<z>/<x1>/<x2>/<y1>/<y2>.<ext>, x1 x2 and y1 y2 being the 6-digit
\* zero-padded decimal x and y split into two 3-digit parts; for
\* (z=12, x=656, y=1582, png) it is L/12/000/656/001/582.png.
C16_SafePath ==
    (pc = "done" /\ arg.dirs = "safe") =>
        LET d(n)  == ToString(n % 10)
            d3(n) == d(n \div 100) \o d(n \div 10) \o d(n)
            x == arg.coord.column
            y == arg.coord.row
        IN  /\ ret = "L/" \o ToString(arg.coord.zoom)
                       \o "/" \o d3(x \div 1000) \o "/" \o d3(x % 1000)
                       \o "/" \o d3(y \div 1000) \o "/" \o d3(y % 1000)
                       \o "." \o extension(arg.format)
            /\ (arg.coord = Coordinate(1582, 656, 12) /\ arg.format = "PNG")
                  => ret = "L/12/000/656/001/582.png"

\* the path of tile 12/656/1582.png was computed with dirs='safe'
C16_Witness ==
    /\ pc = "done"
    /\ arg.dirs = "safe"
    /\ arg.coord = Coordinate(1582, 656, 12)
    /\ arg.format = "PNG"
    /\ ret = "L/12/000/656/001/582.png"

\* C17: with dirs='quadtile' the quadkey of (z=1, x=1, y=0) is "1" and the
\* quadkey of (z=2, x=3, y=1) is "21".
C17_Quadkey ==
    (pc = "done" /\ arg.dirs = "quadtile") =>
        /\ arg.coord = Coordinate(0, 1, 1) => join("", dirpath(arg.coord)) = "1"
        /\ arg.coord = Coordinate(1, 3, 2) => join("", dirpath(arg.coord)) = "21"

\* C17, as the code computes it: the quadkey has 1 + z digits, the first of
\* them for the bit of weight 2^z; it is "01" for (z=1, x=1, y=0) and "013"
\* for (z=2, x=3, y=1), and it is the directory part of the path.
C17_QuadkeyPadded ==
    (pc = "done" /\ arg.dirs = "quadtile") =>
        /\ Len(dirpath(arg.coord)) = 1 + arg.coord.zoom
        /\ arg.coord = Coordinate(0, 1, 1) =>
              /\ join("", dirpath(arg.coord)) = "01"
              /\ ret = "L/01." \o extension(arg.format)
        /\ arg.coord = Coordinate(1, 3, 2) =>
              /\ join("", dirpath(arg.coord)) = "013"
              /\ ret = "L/013." \o extension(arg.format)

\* the path of tile (z=2, x=3, y=1) was computed with dirs='quadtile'
C17_Witness ==
    /\ pc = "done"
    /\ arg.dirs = "quadtile"
    /\ arg.coord = Coordinate(1, 3, 2)
    /\ arg.format = "PNG"
    /\ ret = "L/013.png"

\* --------------------------------- vectiles: build_query and get_features
MaxRows == 2

\* shapely.wkb.dumps(shape) and PostGIS ST_AsBinary: the bytes of a geometry
dumps(shape) == << "wkb", shape.type, shape.coords >>

\* shapely.wkb.loads(wkb): the geometry of the bytes
loads(wkb) == [ type |-> wkb[2], coords |-> wkb[3] ]

\* PostgreSQL MD5(bytes): a digest that differs when the bytes differ
MD5(bytes) == << "md5" >> \o bytes

\* PostgreSQL Substr(string, from, count)
Substr(string, from, count) ==
    SubSeq(string, from,
           IF from + count - 1 < Len(string) THEN from + count - 1
           ELSE Len(string))

\* the __id__ column build_query adds for a sub-query without one:
\* Substr(MD5(ST_AsBinary(q.__geometry__)), 1, 10), computed by the database
\* for the geometry q the sub-query selected, geom being the expression
\* build_query returns as __geometry__
synth_id_mutant(q, geom) == Substr(MD5(dumps(geom)), 1, 10)

synth_id(q, geom) == Substr(MD5(dumps(q)), 1, 10)

\* build_query(srid, subquery, subcolumns, ...): the columns of the composed
\* query; columns = ['q."%s"' % c for c in subcolumns if c not in
\* ('__geometry__',)], and the synthesized __id__ when subcolumns has none
build_query(subcolumns) ==
    [ columns |-> subcolumns \ { "__geometry__" },
      synthesized |-> "__id__" \notin subcolumns ]

\* db.execute(query); db.fetchall(): one row for each row of the sub-query,
\* its __geometry__ the bytes of the clipped, simplified and projected or
\* scaled geometry (ST_AsBinary(%(geom)s))
fetchall(query, subrows) ==
    [ i \in 1 .. Len(subrows) |->
        LET q    == subrows[i].geometry
            geom == [q EXCEPT !.coords = "tile"]
        IN  [ geometry |-> dumps(geom),
              id   |-> IF query.synthesized THEN synth_id(q, geom)
                       ELSE subrows[i].id,
              rest |-> subrows[i].rest ] ]

\* if geometry_types is not None: if shape.type not in geometry_types:
\* continue
keeps_mutant(geometry_types, shape) == TRUE

keeps(geometry_types, shape) ==
    geometry_types = << >> \/ shape.type \in geometry_types[1]

\* props = dict((k, v) for k, v in row.items() if v is not None), a dict
\* being the set of its (key, value) pairs
not_none_mutant(items) == items

not_none(items) == { kv \in items : kv[2] # "None" }

\* shape, props, id = transform_fn(shape, props, id), for the functions a
\* layer may name: one that returns its arguments, one that replaces the
\* shape by its centroid, one that sets a property to the value of another
\* that may be missing (props.get)
transform_fn(fn, shape, props, id) ==
    CASE fn = "centroid" ->
            [ shape |-> [shape EXCEPT !.type = "Point"], props |-> props,
              id |-> id ]
      [] fn = "copy_name" ->
            [ shape |-> shape,
              props |-> props \cup
                  { << "label", IF \E kv \in props : kv[1] = "name"
                                THEN "x" ELSE "None" >> },
              id |-> id ]
      [] OTHER -> [ shape |-> shape, props |-> props, id |-> id ]

\* get_features(dbinfo, query, geometry_types, transform_fn, sort_fn) on the
\* rows fetched, the latest feature last; sort_fn reverses the list
RECURSIVE get_features(_, _, _, _)
get_features(rows, geometry_types, fn, sort_fn) ==
    IF rows = << >> THEN << >>
    ELSE LET row   == rows[Len(rows)]
             wkb   == row.geometry
             shape == loads(wkb)
             props == not_none(row.rest)
             t     == transform_fn(fn, shape, props, row.id)
             f     == IF fn = "None"
                      THEN [ wkb |-> wkb, props |-> props, id |-> row.id ]
                      ELSE [ wkb |-> dumps(t.shape), props |-> t.props,
                             id |-> t.id ]
             before == get_features(SubSeq(rows, 1, Len(rows) - 1),
                                    geometry_types, fn, "None")
             features == IF keeps(geometry_types, shape)
                         THEN Append(before, f) ELSE before
         IN  IF sort_fn = "None" THEN features
             ELSE [ i \in 1 .. Len(features) |->
                      features[Len(features) + 1 - i] ]

\* the rows a sub-query selects, the columns it has, and the layer's
\* geometry_types, transform_fns and sort_fn
InitFeatures ==
    /\ arg \in [ subrows : SeqsUpTo(
                    [ geometry : [ type : { "Point", "Polygon" },
                                   coords : { "world" } ],
                      id : { << "7" >> },
                      rest : { { << "name", "x" >> }, { << "name", "None" >> } } ],
                    MaxRows),
                 has_id : BOOLEAN,
                 geometry_types : { << >> } \cup
                    { << G >> : G \in SUBSET { "Point", "Polygon" } },
                 transform_fn : { "None", "same", "centroid", "copy_name" },
                 sort_fn : { "None", "reversed" } ]
    /\ pc = "call"
    /\ ret = None
    /\ InitRest

\* Response.save: the features of the query build_query composed
GetFeatures ==
    Returns(get_features(
        fetchall(build_query({ "__geometry__", "name" } \cup
                             (IF arg.has_id THEN { "__id__" } ELSE {})),
                 arg.subrows),
        arg.geometry_types, arg.transform_fn, arg.sort_fn))

NextFeatures == GetFeatures

SpecFeatures == InitFeatures /\ [][NextFeatures]_vars

\* C18: for any geometry_types set G and whatever transform_fn and sort_fn
\* are configured, the geometry of every returned feature has a type in G.
C18_GeometryTypes ==
    (pc = "done" /\ arg.geometry_types # << >>) =>
        \A i \in 1 .. Len(ret) :
            loads(ret[i].wkb).type \in arg.geometry_types[1]

\* C18, as the code has it: the filter is on the geometry the database
\* returned, so the returned geometry has a type in G when no transform_fn
\* is configured or the transform_fn keeps the type of the shape, under any
\* ordering by sort_fn.
C18_GeometryTypesBeforeTransform ==
    (/\ pc = "done"
     /\ arg.geometry_types # << >>
     /\ arg.transform_fn # "centroid") =>
        \A i \in 1 .. Len(ret) :
            loads(ret[i].wkb).type \in arg.geometry_types[1]

\* a polygon passed a filter for polygons and was returned as a polygon,
\* while a point of the same query was dropped
C18_Witness ==
    /\ pc = "done"
    /\ arg.geometry_types = << { "Polygon" } >>
    /\ arg.transform_fn = "same"
    /\ Len(arg.subrows) = 2
    /\ arg.subrows[1].geometry.type = "Point"
    /\ arg.subrows[2].geometry.type = "Polygon"
    /\ Len(ret) = 1
    /\ loads(ret[1].wkb).type = "Polygon"

\* C19: whatever rows the database returns and whatever transform_fn is
\* configured, no property of a returned feature is null.
C19_NoNullProperty ==
    pc = "done" =>
        \A i \in 1 .. Len(ret) : \A kv \in ret[i].props : kv[2] # "None"

\* C19, as the code has it: null values of the row are left out before
\* transform_fn runs, so no property is null when no transform_fn is
\* configured or the transform_fn sets no property to null.
C19_NoNullPropertyBeforeTransform ==
    (pc = "done" /\ arg.transform_fn # "copy_name") =>
        \A i \in 1 .. Len(ret) : \A kv \in ret[i].props : kv[2] # "None"

\* a row with a null column was returned as a feature without that property
C19_Witness ==
    /\ pc = "done"
    /\ arg.transform_fn = "None"
    /\ Len(arg.subrows) = 1
    /\ arg.subrows[1].rest = { << "name", "None" >> }
    /\ Len(ret) = 1
    /\ ret[1].props = {}

\* C20: without transform_fn, when the sub-query has no __id__ column the id
\* of each returned feature is the first 10 characters of the MD5 of the WKB
\* returned for that feature; when it has one, the id is the sub-query's
\* value and the composed query has no synthesized id column.
C20_IdOfReturnedWkb ==
    (pc = "done" /\ arg.transform_fn = "None") =>
        \A i \in 1 .. Len(ret) :
            IF arg.has_id
            THEN /\ ret[i].id \in { arg.subrows[j].id :
                                      j \in 1 .. Len(arg.subrows) }
                 /\ ~ build_query({ "__geometry__", "name", "__id__" }).synthesized
            ELSE ret[i].id = Substr(MD5(ret[i].wkb), 1, 10)

\* C20, as the code has it: the synthesized id is the first 10 characters of
\* the MD5 of the WKB of the geometry the sub-query selected, before it is
\* clipped, simplified and projected or scaled into the WKB returned.
C20_IdOfSubqueryGeometry ==
    (pc = "done" /\ arg.transform_fn = "None") =>
        \A i \in 1 .. Len(ret) :
            IF arg.has_id
            THEN /\ ret[i].id \in { arg.subrows[j].id :
                                      j \in 1 .. Len(arg.subrows) }
                 /\ ~ build_query({ "__geometry__", "name", "__id__" }).synthesized
            ELSE \E j \in 1 .. Len(arg.subrows) :
                    /\ ret[i].id = Substr(MD5(dumps(arg.subrows[j].geometry)),
                                          1, 10)
                    /\ ret[i].wkb = dumps([arg.subrows[j].geometry
                                              EXCEPT !.coords = "tile"])

\* a feature of a sub-query without __id__ was returned with a synthesized id
C20_Witness ==
    /\ pc = "done"
    /\ arg.transform_fn = "None"
    /\ ~ arg.has_id
    /\ Len(ret) = 1
    /\ ret[1].id = << "md5", "wkb", "Polygon", "world" >>
    /\ ret[1].wkb = << "wkb", "Polygon", "tile" >>

\* --------------------------------- vectiles: a tile of several layers (MVT)
MaxNames == 3

\* the names of a multi-layer response, all of them keys of config.layers
MultiNames == { "a", "b", "c" }

\* mvt.merge(file, feature_layers) called with the arguments that follow
\* file: a call with any other number of arguments raises a TypeError;
\* otherwise the tile holds get_feature_layer(x['name'], x['features']) of
\* every feature layer, in that order
mvt_merge(arguments) ==
    IF Len(arguments) # 1 THEN << "TypeError" >>
    ELSE [ i \in 1 .. Len(arguments[1]) |-> arguments[1][i].name ]

\* layer.provider.renderTile(width, height, srs, coord): the Provider class
\* of vectiles/server.py defines __init__ and render_tile only
renderTile(layer, coord) == << "AttributeError" >>

\* the loop of MultiResponse.save over the layers: the layers whose tile is
\* an EmptyResponse are skipped, the others append their name and features
RECURSIVE feature_layers(_, _)
feature_layers(names, coord) ==
    IF names = << >> THEN [ raised |-> None, layers |-> << >> ]
    ELSE LET tile == renderTile(names[1], coord)
             rest == feature_layers(Tail(names), coord)
         IN  IF tile = << "AttributeError" >>
             THEN [ raised |-> tile, layers |-> << >> ]
             ELSE IF tile = << "EmptyResponse" >> \/ rest.raised # None
             THEN rest
             ELSE [ raised |-> None,
                    layers |-> << [ name |-> names[1], features |-> tile ] >>
                                   \o rest.layers ]

\* MultiResponse.save(out, 'MVT'): what is written to out, as the names of
\* the sibling layers of the tile, or the error raised
MultiResponse_save(names, coord) ==
    LET gathered == feature_layers(names, coord)
    IN  IF gathered.raised # None THEN gathered.raised
        ELSE mvt_merge(<< gathered.layers, coord >>)

InitMulti ==
    /\ arg \in [ names : SeqsUpTo(MultiNames, MaxNames), coord : Coords ]
    /\ pc = "call"
    /\ ret = None
    /\ InitRest

SaveMulti == Returns(MultiResponse_save(arg.names, arg.coord))

NextMulti == SaveMulti

SpecMulti == InitMulti /\ [][NextMulti]_vars

\* C21: a multi-layer MVT render over the layers named n1..nk writes one
\* tile whose sibling layers are named n1..nk, in that order.
C21_SiblingLayersInOrder ==
    pc = "done" => ret = arg.names

\* ------------------------------------ vectiles: the geometry of build_query
MaxPadding == 1
MaxHeight == 2

\* layer.simplify in half pixels: 0.0, 0.5 and 1.0
Simplify == 0 .. 2

\* tolerance(layer, coord): layer.simplify * tolerances[coord.zoom], in units
\* of half the tolerance of the last zoom level; tolerances halve with
\* every zoom level
tolerance(simplify, zoom) == simplify * Pow2(NumTolerances - 1 - zoom)

\* geom = 'ST_Intersection(%s, %s)' % (geom, simplification_bbox), the box
\* being the bounds grown by simplification_padding = padding +
\* (bounds[3] - bounds[1]) * 0.1, here in tenths of a unit
simplification_bbox(padding, height) ==
    << "ST_Intersection", "bounds", ToString(10 * padding + height) >>

\* geom = 'ST_Intersection(%s, %s)' % (geom, bbox), bbox being the bounds
\* grown by padding
bbox(padding) == << "ST_Intersection", "bounds", ToString(10 * padding) >>

\* the steps after the intersections: ST_Transform(geom, 4326) if is_geo,
\* ST_TransScale(...) if scale
transform_scale(is_geo, scale) ==
    (IF is_geo THEN << << "ST_Transform", "4326" >> >> ELSE << >>)
    \o (IF scale # None THEN << << "ST_TransScale" >> \o scale >> ELSE << >>)

\* build_query of vectiles/provider.py: the functions applied to
\* q.__geometry__, innermost first.  The test is "tolerance is not None",
\* and "if is_clipped" is nested in its block
provider_build_query(tolerance_, is_geo, is_clipped, padding, height, scale) ==
    (IF tolerance_ # None
     THEN << simplification_bbox(padding, height),
             << "ST_MakeValid", "ST_SimplifyPreserveTopology" >> >>
          \o (IF is_clipped THEN << bbox(padding) >> ELSE << >>)
     ELSE << >>)
    \o transform_scale(is_geo, scale)

\* build_query of vectiles/server.py, with simplify_before_intersect: the
\* assert on is_clipped ends the call with an AssertionError; without it
\* the tile is cut and then simplified
server_build_query(tolerance_, is_geo, is_clipped, padding, height, scale, simplify_before_intersect) ==
    IF simplify_before_intersect
    THEN IF ~ is_clipped THEN << << "AssertionError" >> >>
         ELSE (IF tolerance_ # None
               THEN << simplification_bbox(padding, height),
                       << "ST_MakeValid", "ST_SimplifyPreserveTopology" >> >>
               ELSE << >>)
              \o << bbox(padding) >>
              \o transform_scale(is_geo, scale)
    ELSE (IF is_clipped THEN << bbox(padding) >> ELSE << >>)
         \o (IF tolerance_ # None
             THEN << << "ST_SimplifyPreserveTopology" >> >> ELSE << >>)
         \o transform_scale(is_geo, scale)

\* the arguments of a call of build_query: the tolerance is None or the
\* tolerance of a layer at a zoom level, the scale None or mvt.extents
InitGeom ==
    /\ arg \in [ tolerance : { None } \cup
                     { << tolerance(s, z) >> : s \in Simplify,
                                               z \in 0 .. MaxZoom },
                 is_geo : BOOLEAN, is_clipped : BOOLEAN,
                 padding : 0 .. MaxPadding, height : 1 .. MaxHeight,
                 scale : { None, << "extents" >> },
                 simplify_before_intersect : BOOLEAN ]
    /\ pc = "call"
    /\ ret = None
    /\ InitRest

ProviderBuildQuery ==
    Returns(provider_build_query(arg.tolerance, arg.is_geo, arg.is_clipped,
                                 arg.padding, arg.height, arg.scale))

ServerBuildQuery ==
    Returns(server_build_query(arg.tolerance, arg.is_geo, arg.is_clipped,
                               arg.padding, arg.height, arg.scale,
                               arg.simplify_before_intersect))

NextGeom == ProviderBuildQuery \/ ServerBuildQuery

SpecGeom == InitGeom /\ [][NextGeom]_vars

\* C22: the geometry expression of the composed SQL applies, innermost
\* first: when tolerance > 0 the intersection with the box grown by
\* padding + 0.1 x height and then the simplification; the intersection
\* with the exact box if and only if is_clipped, whatever the tolerance;
\* the reprojection to 4326 if is_geo; the scaling if scale is given.
C22_GeometrySteps ==
    pc = "done" =>
        ret = (IF arg.tolerance # None /\ arg.tolerance[1] > 0
               THEN << simplification_bbox(arg.padding, arg.height),
                       << "ST_MakeValid", "ST_SimplifyPreserveTopology" >> >>
               ELSE << >>)
              \o (IF arg.is_clipped THEN << bbox(arg.padding) >> ELSE << >>)
              \o transform_scale(arg.is_geo, arg.scale)

\* C24: for a layer whose simplify is 0.0, at every zoom, the geometry
\* expression holds no ST_SimplifyPreserveTopology call and no intersection
\* with the enlarged simplification box.
C24_ZeroDisablesSimplification ==
    (pc = "done" /\ \E z \in 0 .. MaxZoom :
                        arg.tolerance = << tolerance(0, z) >>) =>
        \A i \in 1 .. Len(ret) :
            /\ ret[i] # simplification_bbox(arg.padding, arg.height)
            /\ ret[i][Len(ret[i])] # "ST_SimplifyPreserveTopology"

\* the rows of the call whose geometry type the layer's geometry_types
\* admit, as indices into the rows the database returned
C23_Retained ==
    { i \in 1 .. Len(arg.subrows) :
        arg.geometry_types = << >>
        \/ arg.subrows[i].geometry.type \in arg.geometry_types[1] }

\* the k-th retained row
C23_Kth(k) ==
    CHOOSE i \in C23_Retained :
        Cardinality({ j \in C23_Retained : j <= i }) = k

\* the feature get_features makes of row i alone
C23_Feature(i) ==
    get_features(
        fetchall(build_query({ "__geometry__", "name" } \cup
                             (IF arg.has_id THEN { "__id__" } ELSE {})),
                 << arg.subrows[i] >>),
        << >>, arg.transform_fn, "None")[1]

\* C23: without a sort_fn the list get_features returns holds exactly one
\* feature per retained row, in the order of the rows the database
\* returned; with a sort_fn it is sort_fn applied to that list.
C23_FeatureOrder ==
    pc = "done" =>
        LET n == Cardinality(C23_Retained)
        IN  /\ Len(ret) = n
            /\ \A k \in 1 .. n :
                 ret[IF arg.sort_fn = "None" THEN k ELSE n + 1 - k]
                     = C23_Feature(C23_Kth(k))

\* two rows of different geometry were both retained and returned unsorted,
\* in the order of the rows
C23_Witness ==
    /\ pc = "done"
    /\ arg.sort_fn = "None"
    /\ arg.transform_fn = "None"
    /\ Len(arg.subrows) = 2
    /\ arg.subrows[1].geometry.type = "Polygon"
    /\ arg.subrows[2].geometry.type = "Point"
    /\ Len(ret) = 2
    /\ ret[1].wkb[2] = "Polygon"
    /\ ret[2].wkb[2] = "Point"

\* ------------------------------------------ Metatile: the tiles of a metatile
MaxSide == 3
MaxCoord == 3

\* a layer with a metatile of rows x columns tiles and a coordinate of any
\* sign; rows and columns are at least 1 (the asserts of Metatile.__init__)
InitCoords ==
    /\ cfg \in { [DefaultCfg EXCEPT !.rows = r, !.columns = c] :
                    r \in 1 .. MaxSide, c \in 1 .. MaxSide }
    /\ arg \in [ coord : { Coordinate(r, c, MaxZoom) :
                             r \in (0 - MaxCoord) .. MaxCoord,
                             c \in (0 - MaxCoord) .. MaxCoord } ]
    /\ pc = "call"
    /\ ret = None
    /\ calls = 0
    /\ locks = {}
    /\ files = [ path \in Paths |-> None ]
    /\ expired = [ path \in Paths |-> FALSE ]
    /\ tmp = [ p \in Procs |-> None ]
    /\ op = [ p \in Procs |-> NoOp ]
    /\ loc = [ p \in Procs |-> NoLoc ]
    /\ recent = [ p \in Procs |-> NoRecent ]
    /\ gh = [ p \in Procs |-> NoGh ]
    /\ broken = {}
    /\ saved = [ path \in Paths |-> None ]
    /\ gone = {}

AllCoords == Returns(allCoords(arg.coord))

NextCoords == AllCoords

SpecCoords == InitCoords /\ [][NextCoords]_vars

\* C25: for a metatile of rows, columns >= 1 and every coordinate c, c is
\* one of allCoords(c), and every d of allCoords(c) has firstCoord(d) =
\* firstCoord(c) = the first entry of allCoords(c).
C25_OneMetatile ==
    pc = "done" =>
        /\ \E i \in 1 .. Len(ret) : ret[i] = arg.coord
        /\ firstCoord(arg.coord) = ret[1]
        /\ \A i \in 1 .. Len(ret) : firstCoord(ret[i]) = ret[1]

\* a coordinate that is not the upper-left corner of its 2 x 3 metatile
C25_Witness ==
    /\ pc = "done"
    /\ cfg.rows = 2
    /\ cfg.columns = 3
    /\ Len(ret) = 6
    /\ ret[1] # arg.coord
    /\ arg.coord.row < 0
    /\ ret[6] = Coordinate(ret[1].row + 1, ret[1].column + 2, MaxZoom)

\* ------------------------------ requestLayer: layers of comma-joined names
\* the layer names of requests, as layername.split(','), and the keys of
\* config.layers: the configured layers a and b, the custom layer ","
\* (config.custom_layer_name) and the names requests add
LayerKeys == { << "a" >>, << "b" >>, << "," >>, << "x" >>,
               << "a", "b" >>, << "b", "a" >> }

\* build_config: the configured layers and the custom layer, a Layer object
\* each, numbered 1, 2, 3 (0: no such key); the provider object of every
\* Layer object: Provider instances Pa and Pb and the MultiProvider M of
\* the custom layer, whose names are [] (custom_layer_dict); the Layer
\* objects whose columns dictionary has an entry
Config0 ==
    [ layers   |-> [ k \in LayerKeys |->
                       CASE k = << "a" >> -> 1
                         [] k = << "b" >> -> 2
                         [] k = << "," >> -> 3
                         [] OTHER -> 0 ],
      provider |-> [ id \in 1 .. 4 + MaxCalls |->
                       CASE id = 1 -> "Pa" [] id = 2 -> "Pb"
                         [] id = 3 -> "M" [] OTHER -> "" ],
      names    |-> << >>,
      layer    |-> 3,
      columns  |-> {} ]

\* isValidLayer(layer, config) of __init__.py
isValidLayerOf(config, layer) ==
    IF layer = << >> THEN FALSE
    ELSE IF config.layers[layer] # 0 THEN TRUE
    ELSE IF Len(layer) > 1
    THEN \A i \in 1 .. Len(layer) :
            /\ config.layers[<< layer[i] >>] # 0
            /\ config.provider[config.layers[<< layer[i] >>]] # "M"
    ELSE FALSE

\* clone_layer(layer, provider_names): copy = Layer(...) is a new object,
\* copy.provider = layer.provider is the provider object of the custom
\* layer, and copy.provider(copy, provider_names) is MultiProvider.__call__:
\* self.layer = layer; self.names = names.  The result is the configuration
\* with config.layers[layername] = copy
clone_layer(config, layername) ==
    LET copy == 1 + Cardinality({ id \in DOMAIN config.provider :
                                    config.provider[id] # "" })
    IN  [config EXCEPT !.layers[layername] = copy,
                       !.provider[copy] = config.provider[
                                              config.layers[<< "," >>]],
                       !.layer = copy,
                       !.names = layername]

\* requestLayer(config, path_info) for a configuration object: the layer of
\* the name, a clone of the custom layer for a name with a delimiter
requestLayer(p, layername) ==
    /\ pc[p] \in { "idle", "rendered", "raised" }
    /\ calls > 0
    /\ calls' = calls - 1
    /\ arg' = [arg EXCEPT ![p] = layername]
    /\ loc' = [loc EXCEPT ![p] = << >>]
    /\ IF ~ isValidLayerOf(cfg, layername)
       THEN /\ pc' = [pc EXCEPT ![p] = "raised"]
            /\ ret' = [ret EXCEPT ![p] = 0]
            /\ cfg' = cfg
       ELSE /\ pc' = [pc EXCEPT ![p] = "held"]
            /\ cfg' = IF Len(layername) > 1 THEN clone_layer(cfg, layername)
                      ELSE cfg
            /\ ret' = [ret EXCEPT ![p] = cfg'.layers[layername]]
    /\ UNCHANGED << locks, files, expired, tmp, op, recent, gh, broken,
                    saved, gone >>

\* the provider of the layer a request holds renders a tile:
\* MultiProvider.render_tile gives MultiResponse(layer.config, self.names,
\* ...), Provider.render_tile fills layer.columns[query] and renders the
\* layer itself
ProviderRenderTile(p) ==
    /\ pc[p] = "held"
    /\ pc' = [pc EXCEPT ![p] = "rendered"]
    /\ IF cfg.provider[ret[p]] = "M"
       THEN /\ loc' = [loc EXCEPT ![p] = cfg.names]
            /\ cfg' = cfg
       ELSE /\ loc' = [loc EXCEPT ![p] = arg[p]]
            /\ cfg' = [cfg EXCEPT !.columns = @ \cup { ret[p] }]
    /\ UNCHANGED << locks, files, expired, tmp, ret, calls, op, arg, recent,
                    gh, broken, saved, gone >>

InitConfig ==
    /\ cfg = Config0
    /\ calls = 1 + MaxCalls
    /\ pc = [ p \in Procs |-> "idle" ]
    /\ arg = [ p \in Procs |-> << >> ]
    /\ ret = [ p \in Procs |-> 0 ]
    /\ loc = [ p \in Procs |-> << >> ]
    /\ locks = {}
    /\ files = [ path \in Paths |-> None ]
    /\ expired = [ path \in Paths |-> FALSE ]
    /\ tmp = [ p \in Procs |-> None ]
    /\ op = [ p \in Procs |-> NoOp ]
    /\ recent = [ p \in Procs |-> NoRecent ]
    /\ gh = [ p \in Procs |-> NoGh ]
    /\ broken = {}
    /\ saved = [ path \in Paths |-> None ]
    /\ gone = {}

NextConfig ==
    \E p \in Procs :
        \/ \E layername \in LayerKeys \ { << "," >> } :
              requestLayer(p, layername)
        \/ ProviderRenderTile(p)

SpecConfig == InitConfig /\ [][NextConfig]_vars

\* C26: the configuration is read-only after initialization: no request
\* (requestLayer, the render of get_tile) adds, removes or replaces an entry
\* of config.layers, or modifies a configured layer or the fields of its
\* provider.
C26_ConfigReadOnly == [][cfg' = cfg]_vars

\* C28: the layer requestLayer returns for 'a,b' renders the sub-layers a
\* and b, also after requestLayer was called for another comma-separated
\* name.
C28_RendersRequestedNames ==
    \A p \in Procs :
        (pc[p] = "rendered" /\ Len(arg[p]) > 1) => loc[p] = arg[p]

\* --------------------------------------- recent tiles: the age of an entry
MaxAdds == 2
MaxClock == 3
MaxRecentAge == 2

\* _addRecentTile(layer, coord, format, body, age) at the time r.clock:
\* due = time() + age
_addRecentTile_age(r, coord, format, body, age) ==
    LET key == << coord, format >>
        due == r.clock + age
    IN  PruneRecent([r EXCEPT !.hash = Put(r.hash, key, << body, due >>),
                              !.list = Append(r.list, << key, due >>)], 1)

\* a call of _addRecentTile; loc[p] keeps, for every key, the body and the
\* due time of the latest call for the key
AddRecentTile(p) ==
    \E coord \in Coords, body \in Bodies, age \in 1 .. MaxRecentAge :
        /\ calls > 0
        /\ calls' = calls - 1
        /\ recent' = [recent EXCEPT ![p] =
                        _addRecentTile_age(@, coord, TileFormat, body, age)]
        /\ loc' = [loc EXCEPT ![p] = Put(@, << coord, TileFormat >>,
                                         << body, recent[p].clock + age >>)]
        /\ pc' = [pc EXCEPT ![p] = "added"]
        /\ UNCHANGED << cfg, locks, files, expired, tmp, ret, op, arg, gh,
                        broken, saved, gone >>

\* a call of _getRecentTile, arg[p] keeping its key and its time
GetRecentTile(p) ==
    \E coord \in Coords :
        /\ ret' = [ret EXCEPT ![p] =
                     _getRecentTile(recent[p], coord, TileFormat)]
        /\ recent' = [recent EXCEPT ![p] =
                        _getRecentTile_del(@, coord, TileFormat)]
        /\ arg' = [arg EXCEPT ![p] = [ key |-> << coord, TileFormat >>,
                                       time |-> recent[p].clock ]]
        /\ pc' = [pc EXCEPT ![p] = "got"]
        /\ UNCHANGED << cfg, locks, files, expired, tmp, calls, op, loc, gh,
                        broken, saved, gone >>

\* time() goes on, for every process
Tick ==
    /\ \A p \in Procs : recent[p].clock < MaxClock
    /\ recent' = [ p \in Procs |-> [recent[p] EXCEPT !.clock = @ + 1] ]
    /\ UNCHANGED << cfg, locks, files, expired, tmp, pc, ret, calls, op, arg,
                    loc, gh, broken, saved, gone >>

InitRecent ==
    /\ cfg = DefaultCfg
    /\ calls = MaxAdds
    /\ pc = [ p \in Procs |-> "idle" ]
    /\ arg = [ p \in Procs |-> [ key |-> << >>, time |-> 0 ] ]
    /\ ret = [ p \in Procs |-> None ]
    /\ loc = [ p \in Procs |-> << >> ]
    /\ recent = [ p \in Procs |-> NoRecent ]
    /\ locks = {}
    /\ files = [ path \in Paths |-> None ]
    /\ expired = [ path \in Paths |-> FALSE ]
    /\ tmp = [ p \in Procs |-> None ]
    /\ op = [ p \in Procs |-> NoOp ]
    /\ gh = [ p \in Procs |-> NoGh ]
    /\ broken = {}
    /\ saved = [ path \in Paths |-> None ]
    /\ gone = {}

NextRecent ==
    \/ \E p \in Procs :
        \/ AddRecentTile(p)
        \/ GetRecentTile(p)
    \/ Tick

SpecRecent == InitRecent /\ [][NextRecent]_vars

\* C27: the body of the latest _addRecentTile call for a key, made at time
\* t with an age, is what _getRecentTile returns for the key at every time
\* before t + age, whatever other _addRecentTile calls were made; and
\* _getRecentTile returns no body at or after the due time.
C27_RecentUntilDue ==
    \A p \in Procs :
        pc[p] = "got" =>
            LET key   == arg[p].key
                fresh == /\ key \in DOMAIN loc[p]
                         /\ arg[p].time < loc[p][key][2]
            IN  /\ fresh => ret[p] = loc[p][key][1]
                /\ ret[p] # None => fresh

\* ------------------------------------- Disk: the paths of different tiles
\* x = '%d' % coord.column; y = '%d' % coord.row;
\* os.sep.join((l, z, x, y + '.' + e))
_filepath_portable_mutant(l, coord, format) ==
    join("/", << l, ToString(coord.column),
                 ToString(coord.row) \o "." \o extension(format) >>)

_filepath_portable(l, coord, format) ==
    join("/", << l, ToString(coord.zoom), ToString(coord.column),
                 ToString(coord.row) \o "." \o extension(format) >>)

\* Disk._fullpath(layer, coord, format): pathjoin(self.cachepath,
\* self._filepath(layer, coord, format)), for the three values of dirs
_fullpath_dirs(dirs, l, coord, format) ==
    "cachepath/" \o (CASE dirs = "safe" -> _filepath_safe(l, coord, format)
                       [] dirs = "portable" ->
                              _filepath_portable(l, coord, format)
                       [] dirs = "quadtile" ->
                              _filepath_quadtile(l, coord, format))

\* Disk._lockpath(layer, coord, format)
_lockpath_dirs(dirs, l, coord, format) ==
    _fullpath_dirs(dirs, l, coord, format) \o ".lock"

\* the keys of tiles: a layer name, a coordinate with 0 <= column, row <
\* 2^zoom and a format get_type_by_ext returns
TileKeys ==
    [ layer : { "L", "M" },
      coord : UNION { { Coordinate(r, c, z) : r \in 0 .. Pow2(z) - 1,
                                              c \in 0 .. Pow2(z) - 1 } :
                      z \in 0 .. MaxZoom },
      format : { "JSON", "TopoJSON", "MVT" } ]

InitKeys ==
    /\ arg \in [ dirs : { "safe", "portable", "quadtile" }, key : TileKeys ]
    /\ pc = "call"
    /\ ret = None
    /\ InitRest

DiskPaths ==
    Returns([ file |-> _fullpath_dirs(arg.dirs, arg.key.layer, arg.key.coord,
                                      arg.key.format),
              lock |-> _lockpath_dirs(arg.dirs, arg.key.layer, arg.key.coord,
                                      arg.key.format) ])

NextKeys == DiskPaths

SpecKeys == InitKeys /\ [][NextKeys]_vars

NestedNames == { << "a" >>, << "b" >>, << "a", "b" >> }

\* the tile all calls ask for
NestedCoord == Coordinate(0, 0, 1)

\* the cache path and the lock path of the tile of a layer
NestedFile(names) ==
    _fullpath_dirs("portable", join(",", names), NestedCoord, "JSON")

NestedLockpath(names) ==
    _lockpath_dirs("portable", join(",", names), NestedCoord, "JSON")

\* get_tile(coord, extension) of a layer: body = cache.read(...); with a
\* body the call returns, without one it goes on to cache.lock
NestedGetTile(p) ==
    \E names \in NestedNames :
        /\ pc[p] \in { "idle", "returned", "raised" }
        /\ calls > 0
        /\ calls' = calls - 1
        /\ arg' = [arg EXCEPT ![p] = [ names |-> names ]]
        /\ ret' = [ret EXCEPT ![p] = "None"]
        /\ pc' = [pc EXCEPT ![p] = IF NestedFile(names) \in files
                                   THEN "returned" ELSE "locking"]
        /\ UNCHANGED << cfg, locks, files, expired, tmp, op, loc, recent, gh,
                        broken, saved, gone >>

\* Disk.lock: os.makedirs(lockpath) succeeds when the directory is not
\* there; otherwise errno 17 and time.sleep(.2), and the loop tries again
NestedLock(p) ==
    /\ pc[p] = "locking"
    /\ NestedLockpath(arg[p].names) \notin locks
    /\ locks' = locks \cup { NestedLockpath(arg[p].names) }
    /\ pc' = [pc EXCEPT ![p] = "locked"]
    /\ UNCHANGED << cfg, files, expired, tmp, ret, calls, op, arg, loc,
                    recent, gh, broken, saved, gone >>

\* Disk.lock after time.time() > due: os.rmdir(lockpath) and
\* os.makedirs(lockpath); broken keeps the locks taken this way
NestedStaleLock(p) ==
    /\ pc[p] = "locking"
    /\ NestedLockpath(arg[p].names) \in locks
    /\ broken' = broken \cup { NestedLockpath(arg[p].names) }
    /\ pc' = [pc EXCEPT ![p] = "locked"]
    /\ UNCHANGED << cfg, locks, files, expired, tmp, ret, calls, op, arg,
                    loc, recent, gh, saved, gone >>

\* if not ignore_cached: body = cache.read(self, coord, format)
NestedRead(p) ==
    /\ pc[p] = "locked"
    /\ IF NestedFile(arg[p].names) \in files
       THEN /\ pc' = [pc EXCEPT ![p] = "finally"]
            /\ ret' = [ret EXCEPT ![p] = "body"]
       ELSE /\ pc' = [pc EXCEPT ![p] = "render"]
            /\ ret' = ret
    /\ UNCHANGED << cfg, locks, files, expired, tmp, calls, op, arg, loc,
                    recent, gh, broken, saved, gone >>

\* tile = self.render(coord, format); tile.save(buff, format); cache.save.
\* For the layer of several names tile.save is MultiResponse.save, whose
\* get_tiles calls getTile(layer, ...) for the first sub-layer: the module
\* vectiles/server.py defines and imports no getTile, a NameError.  For a
\* sub-layer the provider gives an EmptyResponse, which is saved, or
\* Response.__init__ raises an AttributeError
NestedRender(p) ==
    /\ pc[p] = "render"
    /\ pc' = [pc EXCEPT ![p] = "finally"]
    /\ IF Len(arg[p].names) > 1
       THEN /\ ret' = [ret EXCEPT ![p] = "NameError"]
            /\ files' = files
       ELSE \/ /\ ret' = [ret EXCEPT ![p] = "body"]
               /\ files' = files \cup { NestedFile(arg[p].names) }
            \/ /\ ret' = [ret EXCEPT ![p] = "AttributeError"]
               /\ files' = files
    /\ UNCHANGED << cfg, locks, expired, tmp, calls, op, arg, loc, recent,
                    gh, broken, saved, gone >>

\* finally: if lockCoord: cache.unlock(self, lockCoord, format); then the
\* call returns the body or the exception goes on
NestedFinally(p) ==
    /\ pc[p] = "finally"
    /\ locks' = locks \ { NestedLockpath(arg[p].names) }
    /\ pc' = [pc EXCEPT ![p] = IF ret[p] = "body" THEN "returned"
                               ELSE "raised"]
    /\ UNCHANGED << cfg, files, expired, tmp, ret, calls, op, arg, loc,
                    recent, gh, broken, saved, gone >>

InitNested ==
    /\ cfg = DefaultCfg
    /\ calls = 1 + MaxCalls
    /\ pc = [ p \in Procs |-> "idle" ]
    /\ arg = [ p \in Procs |-> [ names |-> << >> ] ]
    /\ ret = [ p \in Procs |-> "None" ]
    /\ loc = [ p \in Procs |-> NoLoc ]
    /\ recent = [ p \in Procs |-> NoRecent ]
    /\ locks = {}
    /\ files = {}
    /\ expired = [ path \in Paths |-> FALSE ]
    /\ tmp = [ p \in Procs |-> None ]
    /\ op = [ p \in Procs |-> NoOp ]
    /\ gh = [ p \in Procs |-> NoGh ]
    /\ broken = {}
    /\ saved = [ path \in Paths |-> None ]
    /\ gone = {}

NextNested ==
    \E p \in Procs :
        \/ NestedGetTile(p)
        \/ NestedLock(p)
        \/ NestedStaleLock(p)
        \/ NestedRead(p)
        \/ NestedRender(p)
        \/ NestedFinally(p)

SpecNested == InitNested /\ [][NextNested]_vars

\* every process is scheduled and every render ends; no timeout is assumed
LiveNested ==
    /\ SpecNested
    /\ \A p \in Procs :
        /\ WF_vars(NestedLock(p))
        /\ WF_vars(NestedRead(p))
        /\ WF_vars(NestedRender(p))
        /\ WF_vars(NestedFinally(p))

====
